---- MODULE Spec2Model ----
(***************************************************************************)
(* A model of the booti bootstrap runner: step dependency resolution,      *)
(* step execution, template sync, value extraction and template backup.    *)
(***************************************************************************)
EXTENDS Integers, Sequences, FiniteSets, TLC

(***************************************************************************)
(* Bounds of the model.                                                    *)
(***************************************************************************)
\* dependency entries declared over all discovered steps, and the length of
\* the --steps list, when only the dependency graph is built
MaxEdges == 3

MaxSel == 2

\* the same for a whole run of main
MaxRunEdges == 2

MaxRunSel == 1

\* the most tokens (placeholders and literal characters) of a text template
MaxTokens == 3

\* the longest value of a variable, in characters
MaxValueLen == 2

\* the longest local text backed up against a fixed template
MaxLocalLen == 4

\* variable collection: dependency entries of the steps, in all
MaxCollectEdges == 1

\* the most runs that sync the same file one after the other
MaxSyncs == 2

\* files listed by the step of a sync of several files
MaxFiles == 2

(***************************************************************************)
(* Sequence helpers.                                                       *)
(***************************************************************************)
InSeq(x, s) == \E i \in 1..Len(s) : s[i] = x

SeqToSet(s) == {s[i] : i \in 1..Len(s)}

NoDup(s) == \A i, j \in 1..Len(s) : i # j => s[i] # s[j]

IndexOf(x, s) == CHOOSE i \in 1..Len(s) : s[i] = x

SeqsUpTo(S, n) == UNION {[1..k -> S] : k \in 0..n}

(***************************************************************************)
(* Text.  A string is a sequence of one-character strings; the placeholder *)
(* ${NAME} is the characters $ { N A M E }.                                *)
(***************************************************************************)
Upper ==
  {"A", "B", "C", "D", "E", "F", "G", "H", "I", "J", "K", "L", "M",
   "N", "O", "P", "Q", "R", "S", "T", "U", "V", "W", "X", "Y", "Z"}

Digit == {"0", "1", "2", "3", "4", "5", "6", "7", "8", "9"}

\* [A-Z_] and [A-Z0-9_]
NameStart == Upper \cup {"_"}

NameChar == Upper \cup Digit \cup {"_"}

Placeholder(name) == <<"$", "{">> \o name \o <<"}">>

HOME == <<"H", "O", "M", "E">>

USER == <<"U", "S", "E", "R">>

\* s.startsWith(lit, at position i), i counted from 1
LitAt(s, i, lit) ==
  /\ i + Len(lit) - 1 <= Len(s)
  /\ \A k \in 1..Len(lit) : s[i + k - 1] = lit[k]

\* the first index after the greedy run [A-Z0-9_]* that starts at i
RECURSIVE NameRunEnd(_, _)
NameRunEnd(s, i) ==
  IF i <= Len(s) /\ s[i] \in NameChar THEN NameRunEnd(s, i + 1) ELSE i

\* /\$\{([A-Z_][A-Z0-9_]*)\}/ tried at index i (from 1): the first index
\* after the match, or 0 when it does not match there
PlaceholderAt(s, i) ==
  IF i + 3 <= Len(s) /\ s[i] = "$" /\ s[i + 1] = "{" /\ s[i + 2] \in NameStart
  THEN LET e == NameRunEnd(s, i + 3)
       IN IF e <= Len(s) /\ s[e] = "}" THEN e + 1 ELSE 0
  ELSE 0

\* findVariablesInTemplate: the matches in order of appearance, with
\* startIndex/endIndex counted from 0 as in the source
RECURSIVE findVariablesFrom(_, _)
findVariablesFrom(s, i) ==
  IF i > Len(s) THEN <<>>
  ELSE LET e == PlaceholderAt(s, i)
       IN IF e = 0 THEN findVariablesFrom(s, i + 1)
          ELSE <<[name |-> SubSeq(s, i + 2, e - 2),
                  startIndex |-> i - 1, endIndex |-> e - 1]>>
                 \o findVariablesFrom(s, e)

findVariablesInTemplate(content) == findVariablesFrom(content, 1)

\* the replacement patterns of String.prototype.replace: $$ inserts a "$"
\* and $& the matched text; a "$" before any other character of the model's
\* alphabet is kept as written
RECURSIVE expandReplacement(_, _, _)
expandReplacement(repl, i, matched) ==
  IF i > Len(repl) THEN <<>>
  ELSE IF repl[i] = "$" /\ i < Len(repl) /\ repl[i + 1] = "$"
       THEN <<"$">> \o expandReplacement(repl, i + 2, matched)
  ELSE IF repl[i] = "$" /\ i < Len(repl) /\ repl[i + 1] = "&"
       THEN matched \o expandReplacement(repl, i + 2, matched)
  ELSE <<repl[i]>> \o expandReplacement(repl, i + 1, matched)

\* str.replace(/<pat, escaped>/g, repl): every non-overlapping occurrence,
\* scanning left to right; the inserted text is not rescanned
RECURSIVE ReplaceAllFrom(_, _, _, _)
ReplaceAllFrom(str, i, pat, ins) ==
  IF i > Len(str) THEN <<>>
  ELSE IF LitAt(str, i, pat) THEN ins \o ReplaceAllFrom(str, i + Len(pat), pat, ins)
  ELSE <<str[i]>> \o ReplaceAllFrom(str, i + 1, pat, ins)

ReplaceAll(str, pat, repl) ==
  IF pat = <<>> THEN str
  ELSE ReplaceAllFrom(str, 1, pat, expandReplacement(repl, 1, pat))

\* an insertion-ordered Map<string, string> is a sequence of [k, v]
MapHasKey(m, k) == \E i \in 1..Len(m) : m[i].k = k

MapGetKey(m, k) == m[CHOOSE i \in 1..Len(m) : m[i].k = k].v

MapSet(m, k, v) ==
  IF MapHasKey(m, k)
  THEN [i \in 1..Len(m) |-> IF m[i].k = k THEN [k |-> k, v |-> v] ELSE m[i]]
  ELSE Append(m, [k |-> k, v |-> v])

(***************************************************************************)
(* The process environment: homedir() and process.env.USER.                *)
(***************************************************************************)
HomeDir == <<"/", "h">>

UserName == <<"u">>

\* substituteBuiltins (core/extraction)
substituteBuiltins(content) ==
  ReplaceAll(ReplaceAll(content, Placeholder(HOME), HomeDir), Placeholder(USER), UserName)

\* buildExtractionRegex: [ok, lits, varNames]; the regex is
\* ^ lits[1] (.+?) lits[2] (.+?) ... lits[n+1] $ with the dotall flag
RECURSIVE regexLits(_, _, _, _)
regexLits(template, matches, i, lastIndex) ==
  IF i > Len(matches) THEN <<SubSeq(template, lastIndex + 1, Len(template))>>
  ELSE <<SubSeq(template, lastIndex + 1, matches[i].startIndex)>>
         \o regexLits(template, matches, i + 1, matches[i].endIndex)

buildExtractionRegex(template) ==
  LET matches == findVariablesInTemplate(template)
  IN IF Len(matches) = 0
     THEN [ok |-> FALSE, lits |-> <<>>, varNames |-> <<>>]
     ELSE [ok |-> TRUE,
           lits |-> regexLits(template, matches, 1, 0),
           varNames |-> [i \in 1..Len(matches) |-> matches[i].name]]

\* regex.exec(local) by backtracking: element k of the regex is the literal
\* lits[k] followed (for k <= n) by a lazy group, which tries the shortest
\* non-empty capture first
RECURSIVE regexMatches(_, _, _, _), regexCaptures(_, _, _, _)
regexMatches(lits, k, s, pos) ==
  /\ LitAt(s, pos, lits[k])
  /\ LET p == pos + Len(lits[k])
     IN IF k = Len(lits) THEN p = Len(s) + 1
        ELSE \E n \in 1..(Len(s) - p + 1) : regexMatches(lits, k + 1, s, p + n)

regexCaptures(lits, k, s, pos) ==
  LET p == pos + Len(lits[k])
  IN IF k = Len(lits) THEN <<>>
     ELSE LET n == CHOOSE n \in 1..(Len(s) - p + 1) :
                     /\ regexMatches(lits, k + 1, s, p + n)
                     /\ \A m \in 1..(n - 1) : ~regexMatches(lits, k + 1, s, p + m)
          IN <<SubSeq(s, p, p + n - 1)>> \o regexCaptures(lits, k + 1, s, p + n)

RECURSIVE setCaptures(_, _, _, _)
setCaptures(values, varNames, caps, i) ==
  IF i > Len(varNames) THEN values
  ELSE setCaptures(MapSet(values, varNames[i], caps[i]), varNames, caps, i + 1)

\* an extraction that matches the template as written, built-ins and all
extractValuesFromTextAsWritten(template, local) ==
  LET re == buildExtractionRegex(template)
  IN IF ~re.ok THEN <<>>
     ELSE IF ~regexMatches(re.lits, 1, local, 1) THEN <<>>
     ELSE setCaptures(<<>>, re.varNames, regexCaptures(re.lits, 1, local, 1), 1)

\* extractValuesFromText(template, local): Map name -> value
extractValuesFromText(template, local) ==
  LET re == buildExtractionRegex(substituteBuiltins(template))
  IN IF ~re.ok THEN <<>>
     ELSE IF ~regexMatches(re.lits, 1, local, 1) THEN <<>>
     ELSE setCaptures(<<>>, re.varNames, regexCaptures(re.lits, 1, local, 1), 1)

(***************************************************************************)
(* JSON values.  [t, s, o]: t the type, s the text of a string or number,  *)
(* o the entries <<[k, v], ...>> of an object or array in property order   *)
(* (an array's keys are its indices).  A key is a string (of characters).  *)
(***************************************************************************)
JStr(str) == [t |-> "str", s |-> str, o |-> <<>>]

JNum(digits) == [t |-> "num", s |-> digits, o |-> <<>>]

JNull == [t |-> "null", s |-> <<>>, o |-> <<>>]

JUndefined == [t |-> "undefined", s |-> <<>>, o |-> <<>>]

JObj(entries) == [t |-> "obj", s |-> <<>>, o |-> entries]

JArr(entries) == [t |-> "arr", s |-> <<>>, o |-> entries]

KV(key, val) == [k |-> key, v |-> val]

\* typeof v === 'object' && v !== null
IsObjectLike(v) == v.t \in {"obj", "arr"}

\* v !== null && typeof v === 'object' && !Array.isArray(v)
IsPlainObject(v) == v.t = "obj"

\* !v
Falsy(v) ==
  \/ v.t \in {"undefined", "null"}
  \/ v.t = "str" /\ v.s = <<>>
  \/ v.t = "num" /\ v.s = <<"0">>

HasKey(v, key) == \E i \in 1..Len(v.o) : v.o[i].k = key

\* v[key] for an object or array v
GetKey(v, key) ==
  IF HasKey(v, key) THEN v.o[CHOOSE i \in 1..Len(v.o) : v.o[i].k = key].v
  ELSE JUndefined

\* v[key] = val: an existing property keeps its place, a new one goes last
PutKey(v, key, val) ==
  [v EXCEPT !.o = IF HasKey(v, key)
                  THEN [i \in 1..Len(v.o) |->
                          IF v.o[i].k = key THEN KV(key, val) ELSE v.o[i]]
                  ELSE Append(v.o, KV(key, val))]

\* jqPath.split('.').filter(p => p.length > 0)
RECURSIVE splitDots(_, _, _)
splitDots(str, i, cur) ==
  IF i > Len(str) THEN <<cur>>
  ELSE IF str[i] = "." THEN <<cur>> \o splitDots(str, i + 1, <<>>)
  ELSE splitDots(str, i + 1, Append(cur, str[i]))

NonEmptyPart(part) == Len(part) > 0

pathParts(jqPath) == SelectSeq(splitDots(jqPath, 1, <<>>), NonEmptyPart)

\* getValueAtPath (core/extraction)
RECURSIVE getValueAtParts(_, _, _)
getValueAtParts(cur, parts, i) ==
  IF i > Len(parts) THEN cur
  ELSE IF ~IsObjectLike(cur) THEN JUndefined
  ELSE getValueAtParts(GetKey(cur, parts[i]), parts, i + 1)

getValueAtPath(obj, jqPath) == getValueAtParts(obj, pathParts(jqPath), 1)

\* findVariablesInValue: <<[path, varName], ...>>
RECURSIVE findVariablesInValue(_, _), findVariablesInEntries(_, _, _)
findVariablesInValue(value, currentPath) ==
  IF value.t = "str"
  THEN LET matches == findVariablesInTemplate(value.s)
       IN [i \in 1..Len(matches) |-> [path |-> currentPath, varName |-> matches[i].name]]
  ELSE IF IsPlainObject(value) THEN findVariablesInEntries(value.o, currentPath, 1)
  ELSE <<>>

findVariablesInEntries(entries, currentPath, i) ==
  IF i > Len(entries) THEN <<>>
  ELSE findVariablesInValue(entries[i].v, Append(currentPath, entries[i].k))
         \o findVariablesInEntries(entries, currentPath, i + 1)

\* the walk of extractValuesFromJson from localSubset along a location's path
RECURSIVE localValueAt(_, _, _)
localValueAt(cur, path, i) ==
  IF i > Len(path) THEN cur
  ELSE IF ~IsObjectLike(cur) THEN JUndefined
  ELSE localValueAt(GetKey(cur, path[i]), path, i + 1)

RECURSIVE extractAtLocations(_, _, _, _)
extractAtLocations(values, varLocations, localSubset, i) ==
  IF i > Len(varLocations) THEN values
  ELSE LET localValue == localValueAt(localSubset, varLocations[i].path, 1)
       IN extractAtLocations(
            IF localValue.t = "str"
            THEN MapSet(values, varLocations[i].varName, localValue.s)
            ELSE values,
            varLocations, localSubset, i + 1)

\* extractValuesFromJson(templateJson, localJson, jqPath): Map name -> value
extractValuesFromJson(templateJson, localJson, jqPath) ==
  LET templateSubset == getValueAtPath(templateJson, jqPath)
      localSubset == getValueAtPath(localJson, jqPath)
  IN IF Falsy(templateSubset) \/ ~IsObjectLike(templateSubset) THEN <<>>
     ELSE extractAtLocations(<<>>, findVariablesInValue(templateSubset, <<>>),
                             localSubset, 1)

(***************************************************************************)
(* JSON merge (utils/json-merge).                                          *)
(***************************************************************************)
DigitSeq == <<"0", "1", "2", "3", "4", "5", "6", "7", "8", "9">>

\* the own enumerable properties of v: Object.keys(v) with v[key]
OwnEntries(v) ==
  IF IsObjectLike(v) THEN v.o
  ELSE IF v.t = "str" THEN [i \in 1..Len(v.s) |-> KV(<<DigitSeq[i]>>, JStr(<<v.s[i]>>))]
  ELSE <<>>

\* { ...v }
Spread(v) == JObj(OwnEntries(v))

\* deepMerge(target, source); Object.keys(source) throws on null/undefined
deepMergeThrows(source) == source.t \in {"null", "undefined"}

RECURSIVE deepMerge(_, _), deepMergeKeys(_, _, _)
deepMerge(target, source) == deepMergeKeys(Spread(target), OwnEntries(source), 1)

\* a merge that overwrites every key of the source, objects included
deepMergeKeysShallow(result, entries, i) ==
  IF i > Len(entries) THEN result
  ELSE deepMergeKeys(PutKey(result, entries[i].k, entries[i].v), entries, i + 1)

\* a merge that appends the source's array to the target's
deepMergeKeysConcatArrays(result, entries, i) ==
  IF i > Len(entries) THEN result
  ELSE LET key == entries[i].k
           sourceValue == entries[i].v
           targetValue == GetKey(result, key)
       IN deepMergeKeys(
            IF IsPlainObject(sourceValue) /\ IsPlainObject(targetValue)
            THEN PutKey(result, key, deepMerge(targetValue, sourceValue))
            ELSE IF sourceValue.t = "arr" /\ targetValue.t = "arr"
            THEN PutKey(result, key,
                        JArr([n \in 1..(Len(targetValue.o) + Len(sourceValue.o)) |->
                                KV(<<DigitSeq[n]>>,
                                   IF n <= Len(targetValue.o) THEN targetValue.o[n].v
                                   ELSE sourceValue.o[n - Len(targetValue.o)].v)]))
            ELSE PutKey(result, key, sourceValue),
            entries, i + 1)

deepMergeKeys(result, entries, i) ==
  IF i > Len(entries) THEN result
  ELSE LET key == entries[i].k
           sourceValue == entries[i].v
           targetValue == GetKey(result, key)
       IN deepMergeKeys(
            IF IsPlainObject(sourceValue) /\ IsPlainObject(targetValue)
            THEN PutKey(result, key, deepMerge(targetValue, sourceValue))
            ELSE PutKey(result, key, sourceValue),
            entries, i + 1)

\* deepMergeAtPath(target, source, jqPath)
RECURSIVE mergeAtParts(_, _, _, _)
mergeAtParts(current, parts, i, source) ==
  IF i = Len(parts)
  THEN LET atKey == GetKey(current, parts[i])
           targetAtPath == IF Falsy(atKey) THEN JObj(<<>>) ELSE atKey
       IN PutKey(current, parts[i], deepMerge(targetAtPath, source))
  ELSE LET child == GetKey(current, parts[i])
           next == IF Falsy(child) \/ ~IsObjectLike(child) THEN JObj(<<>>) ELSE child
       IN PutKey(current, parts[i], mergeAtParts(next, parts, i + 1, source))

deepMergeAtPath(target, source, jqPath) ==
  LET parts == pathParts(jqPath)
  IN IF Len(parts) = 0 THEN deepMerge(target, source)
     ELSE mergeAtParts(Spread(target), parts, 1, source)

(***************************************************************************)
(* Files (utils/fs).  The content of a file is [fmt, txt, json]:           *)
(*   absent   no file at that path                                         *)
(*   raw      text that is not a JSON document, txt its characters         *)
(*   pretty   the JSON document json written as JSON.stringify(json, null, *)
(*            2) + "\n" writes it                                          *)
(*   compact  the JSON document json in any other layout                   *)
(***************************************************************************)
Absent == [fmt |-> "absent", txt |-> <<>>, json |-> JNull]

TextFile(txt) == [fmt |-> "raw", txt |-> txt, json |-> JNull]

JsonFile(fmt, v) == [fmt |-> fmt, txt |-> <<>>, json |-> v]

IsJsonText(content) == content.fmt \in {"pretty", "compact"}

\* JSON.stringify keeps of an array only its index properties
IsIndexKey(key) == Len(key) = 1 /\ key[1] \in Digit

RECURSIVE serializable(_), serializableEntries(_, _, _)
serializable(v) ==
  IF IsObjectLike(v) THEN [v EXCEPT !.o = serializableEntries(v.o, v.t = "arr", 1)] ELSE v

serializableEntries(entries, isArray, i) ==
  IF i > Len(entries) THEN <<>>
  ELSE (IF (isArray /\ ~IsIndexKey(entries[i].k)) \/ entries[i].v.t = "undefined"
        THEN <<>>
        ELSE <<KV(entries[i].k, serializable(entries[i].v))>>)
         \o serializableEntries(entries, isArray, i + 1)

\* JSON.stringify(data, null, 2) + '\n'
stringifyPretty(data) == JsonFile("pretty", serializable(data))

TemplatePath(templateDir, path) == <<"steps", templateDir, path>>

TargetPath(path) == <<"home", path>>

BackupPath(path) == <<"home", path, ".bak">>

CorruptBackupPath(path) == <<"home", path, ".corrupt.bak">>

TmpPath(path) == <<"tmp", path>>

fileExists(files, path) == files[path].fmt # "absent"

\* a copy that keeps the first backup ever made
copyWithBackupKeepFirst(files, source, dest, backup) ==
  LET saved == IF fileExists(files, dest) /\ ~fileExists(files, backup)
               THEN [files EXCEPT ![backup] = files[dest]]
               ELSE files
  IN [saved EXCEPT ![dest] = files[source]]

\* copyWithBackup(source, dest)
copyWithBackup(files, source, dest, backup) ==
  LET saved == IF fileExists(files, dest)
               THEN [files EXCEPT ![backup] = files[dest]]
               ELSE files
  IN [saved EXCEPT ![dest] = files[source]]

\* a merge that starts afresh over a corrupt target without keeping its content
jqMergeNoCorruptBackup(files, path, sourceContent, jqPath) ==
  IF ~IsJsonText(sourceContent) THEN [thrown |-> TRUE, files |-> files]
  ELSE LET source == sourceContent.json
           target == IF IsJsonText(files[TargetPath(path)])
                     THEN files[TargetPath(path)].json
                     ELSE JObj(<<>>)
       IN IF deepMergeThrows(source) THEN [thrown |-> TRUE, files |-> files]
          ELSE [thrown |-> FALSE,
                files |-> [files EXCEPT ![TargetPath(path)] =
                             stringifyPretty(deepMergeAtPath(target, source, jqPath))]]

\* jqMerge(targetPath, sourceContent, jqPath): [thrown, files]
jqMerge(files, path, sourceContent, jqPath) ==
  IF ~IsJsonText(sourceContent) THEN [thrown |-> TRUE, files |-> files]
  ELSE LET source == sourceContent.json
           corrupt == fileExists(files, TargetPath(path))
                        /\ ~IsJsonText(files[TargetPath(path)])
           target == IF fileExists(files, TargetPath(path)) /\ ~corrupt
                     THEN files[TargetPath(path)].json
                     ELSE JObj(<<>>)
           kept == IF corrupt
                   THEN [files EXCEPT ![CorruptBackupPath(path)] = files[TargetPath(path)]]
                   ELSE files
       IN IF deepMergeThrows(source) THEN [thrown |-> TRUE, files |-> kept]
          ELSE [thrown |-> FALSE,
                files |-> [kept EXCEPT ![TargetPath(path)] =
                             stringifyPretty(deepMergeAtPath(target, source, jqPath))]]

(***************************************************************************)
(* Template sync (core/templates).                                         *)
(***************************************************************************)
\* the loop of substituteVariables over Object.entries(variables)
RECURSIVE substituteCollected(_, _, _)
substituteCollected(str, variables, i) ==
  IF i > Len(variables) THEN str
  ELSE substituteCollected(ReplaceAll(str, Placeholder(variables[i].k), variables[i].v),
                           variables, i + 1)

\* substituteVariables on text
substituteText(str, variables) ==
  ReplaceAll(ReplaceAll(substituteCollected(str, variables, 1),
                        Placeholder(HOME), HomeDir),
             Placeholder(USER), UserName)

\* on the text of a JSON document the replacements fall inside its strings
RECURSIVE substituteJson(_, _), substituteEntries(_, _, _)
substituteJson(v, variables) ==
  IF v.t = "str" THEN JStr(substituteText(v.s, variables))
  ELSE IF IsObjectLike(v) THEN [v EXCEPT !.o = substituteEntries(v.o, variables, 1)]
  ELSE v

substituteEntries(entries, variables, i) ==
  IF i > Len(entries) THEN <<>>
  ELSE <<KV(substituteText(entries[i].k, variables),
            substituteJson(entries[i].v, variables))>>
         \o substituteEntries(entries, variables, i + 1)

\* substituteVariables(content, variables)
substituteVariables(content, variables) ==
  IF IsJsonText(content)
  THEN JsonFile(content.fmt, substituteJson(content.json, variables))
  ELSE TextFile(substituteText(content.txt, variables))

\* syncReplace(tmpPath, targetPath, dryRun)
syncReplace(files, path, dryRun) ==
  IF dryRun THEN files
  ELSE copyWithBackup(files, TmpPath(path), TargetPath(path), BackupPath(path))

\* syncJqMerge(sourceContent, targetPath, jqPath, dryRun): [thrown, files]
syncJqMerge(files, sourceContent, path, jqPath, dryRun) ==
  IF dryRun THEN [thrown |-> FALSE, files |-> files]
  ELSE jqMerge(IF fileExists(files, TargetPath(path))
               THEN [files EXCEPT ![BackupPath(path)] = files[TargetPath(path)]]
               ELSE files,
               path, sourceContent, jqPath)

\* syncTemplates(templateDir, files, {dryRun, variables}): [thrown, files, warnings]
RECURSIVE syncTemplatesFrom(_, _, _, _, _, _)
\* a loop that ends at the first file whose template cannot be read
syncTemplatesFromStopAtSkip(st, templateDir, fileConfigs, i, dryRun, variables) ==
  IF i > Len(fileConfigs) \/ st.thrown THEN st
  ELSE LET file == fileConfigs[i]
           sourcePath == TemplatePath(templateDir, file.path)
           sourceContent == substituteVariables(st.files[sourcePath], variables)
           r == syncJqMerge(st.files, sourceContent, file.path, file.jq_path, dryRun)
       IN IF ~fileExists(st.files, sourcePath)
          THEN [st EXCEPT !.warnings = Append(@, <<"Template not found", file.path>>)]
          ELSE syncTemplatesFrom(
                 IF file.strategy = "replace"
                 THEN [st EXCEPT !.files =
                         syncReplace([st.files EXCEPT ![TmpPath(file.path)] = sourceContent],
                                     file.path, dryRun)]
                 ELSE IF file.jq_path = <<>>
                 THEN [st EXCEPT !.warnings =
                         Append(@, <<"jq-merge strategy requires jq_path", file.path>>)]
                 ELSE [st EXCEPT !.files = r.files, !.thrown = r.thrown],
                 templateDir, fileConfigs, i + 1, dryRun, variables)

syncTemplatesFrom(st, templateDir, fileConfigs, i, dryRun, variables) ==
  IF i > Len(fileConfigs) \/ st.thrown THEN st
  ELSE LET file == fileConfigs[i]
           sourcePath == TemplatePath(templateDir, file.path)
           notFound == [st EXCEPT !.warnings =
                                    Append(@, <<"Template not found", file.path>>)]
           noJqPath == [st EXCEPT !.warnings =
                                    Append(@, <<"jq-merge strategy requires jq_path", file.path>>)]
       IN IF ~fileExists(st.files, sourcePath)
          THEN syncTemplatesFrom(notFound, templateDir, fileConfigs, i + 1, dryRun, variables)
          ELSE LET sourceContent == substituteVariables(st.files[sourcePath], variables)
               IN IF file.strategy = "replace"
                  THEN syncTemplatesFrom(
                         [st EXCEPT !.files =
                            syncReplace([st.files EXCEPT ![TmpPath(file.path)] = sourceContent],
                                        file.path, dryRun)],
                         templateDir, fileConfigs, i + 1, dryRun, variables)
                  ELSE IF file.jq_path = <<>>
                  THEN syncTemplatesFrom(noJqPath, templateDir, fileConfigs, i + 1,
                                         dryRun, variables)
                  ELSE LET r == syncJqMerge(st.files, sourceContent, file.path,
                                            file.jq_path, dryRun)
                       IN syncTemplatesFrom(
                            [st EXCEPT !.files = r.files, !.thrown = r.thrown],
                            templateDir, fileConfigs, i + 1, dryRun, variables)

syncTemplates(files, templateDir, fileConfigs, dryRun, variables) ==
  syncTemplatesFrom([thrown |-> FALSE, files |-> files, warnings |-> <<>>],
                    templateDir, fileConfigs, 1, dryRun, variables)

(***************************************************************************)
(* Backup (core/backup).                                                   *)
(***************************************************************************)
\* Array.prototype.sort((a, b) => b[1].length - a[1].length): stable,
\* longest value first
insertByLength(sorted, e) ==
  LET k == Cardinality({i \in 1..Len(sorted) : Len(sorted[i].v) >= Len(e.v)})
  IN SubSeq(sorted, 1, k) \o <<e>> \o SubSeq(sorted, k + 1, Len(sorted))

RECURSIVE sortByLengthDesc(_)
sortByLengthDesc(m) ==
  IF m = <<>> THEN <<>>
  ELSE insertByLength(sortByLengthDesc(SubSeq(m, 1, Len(m) - 1)), m[Len(m)])

RECURSIVE replaceSorted(_, _, _)
replaceSorted(str, sortedEntries, i) ==
  IF i > Len(sortedEntries) THEN str
  ELSE replaceSorted(
         IF Len(sortedEntries[i].v) > 0
         THEN ReplaceAll(str, sortedEntries[i].v, Placeholder(sortedEntries[i].k))
         ELSE str,
         sortedEntries, i + 1)

\* replaceValuesWithPlaceholders(content, values)
replaceValuesWithPlaceholders(content, values) ==
  replaceSorted(content, sortByLengthDesc(values), 1)

\* replaceInObject: a string equal to a value becomes the placeholder of the
\* first such variable of the Map; nested plain objects are descended into
RECURSIVE replaceInObject(_, _), replaceInEntries(_, _, _)
replaceInObject(obj, values) == [obj EXCEPT !.o = replaceInEntries(obj.o, values, 1)]

replaceInEntries(entries, values, i) ==
  IF i > Len(entries) THEN <<>>
  ELSE LET value == entries[i].v
           hits == {j \in 1..Len(values) : values[j].v = value.s}
           first == CHOOSE j \in hits : \A h \in hits : j <= h
       IN <<KV(entries[i].k,
               IF value.t = "str"
               THEN (IF hits # {} THEN JStr(Placeholder(values[first].k)) ELSE value)
               ELSE IF IsPlainObject(value) THEN replaceInObject(value, values)
               ELSE value)>>
            \o replaceInEntries(entries, values, i + 1)

\* replaceJsonValuesWithPlaceholders(json, values, jqPath)
RECURSIVE replaceAtParts(_, _, _, _)
replaceAtParts(current, parts, i, values) ==
  IF i > Len(parts) THEN replaceInObject(current, values)
  ELSE LET child == GetKey(current, parts[i])
       IN IF Falsy(child) \/ ~IsObjectLike(child) THEN current
          ELSE PutKey(current, parts[i], replaceAtParts(child, parts, i + 1, values))

replaceJsonValuesWithPlaceholders(json, values, jqPath) ==
  replaceAtParts(serializable(json), pathParts(jqPath), 1, values)

\* the walk of backupFile to the local subset: a step is taken only from an
\* object
RECURSIVE localSubsetAt(_, _, _)
localSubsetAt(cur, parts, i) ==
  IF i > Len(parts) THEN cur
  ELSE localSubsetAt(IF ~Falsy(cur) /\ IsObjectLike(cur) THEN GetKey(cur, parts[i]) ELSE cur,
                     parts, i + 1)

\* backupFile: current[pathParts[last]] = updatedSubset after walking the
\* template to the parent; with no path parts nothing is assigned.
\* [thrown, json]
RECURSIVE assignAtParts(_, _, _, _)
assignAtParts(current, parts, i, subset) ==
  IF Len(parts) = 0 THEN [thrown |-> FALSE, json |-> current]
  ELSE IF ~IsObjectLike(current) THEN [thrown |-> TRUE, json |-> current]
  ELSE IF i = Len(parts)
       THEN [thrown |-> FALSE, json |-> PutKey(current, parts[i], subset)]
  ELSE LET r == assignAtParts(GetKey(current, parts[i]), parts, i + 1, subset)
       IN [thrown |-> r.thrown, json |-> PutKey(current, parts[i], r.json)]

BackupResult(path, changed, error) == [path |-> path, changed |-> changed, error |-> error]

\* the jq-merge branch of backupFile: [returned, result, content]
backupJqMerge(file, localContent, templateContent) ==
  IF ~IsJsonText(localContent) \/ ~IsJsonText(templateContent)
  THEN [returned |-> TRUE, content |-> templateContent,
        result |-> BackupResult(file.path, FALSE, "JSON Parse error")]
  ELSE LET localJson == localContent.json
           templateJson == templateContent.json
           values == extractValuesFromJson(templateJson, localJson, file.jq_path)
           parts == pathParts(file.jq_path)
           localSubset == localSubsetAt(localJson, parts, 1)
           updatedSubset == replaceJsonValuesWithPlaceholders(localSubset, values, <<".">>)
           updated == assignAtParts(serializable(templateJson), parts, 1, updatedSubset)
       IN IF Len(values) = 0
          THEN [returned |-> TRUE, content |-> templateContent,
                result |-> BackupResult(file.path, FALSE, "")]
          ELSE IF Falsy(localSubset) \/ ~IsObjectLike(localSubset)
          THEN [returned |-> TRUE, content |-> templateContent,
                result |-> BackupResult(file.path, FALSE, "Cannot find jq_path in local file")]
          ELSE IF updated.thrown
          THEN [returned |-> TRUE, content |-> templateContent,
                result |-> BackupResult(file.path, FALSE, "TypeError")]
          ELSE [returned |-> FALSE, content |-> stringifyPretty(updated.json),
                result |-> BackupResult(file.path, FALSE, "")]

\* the replace branch of backupFile: [returned, result, content]
backupReplace(file, localContent, templateContent) ==
  LET templateWithBuiltins == substituteBuiltins(templateContent.txt)
      values == extractValuesFromText(templateContent.txt, localContent.txt)
  IN IF Len(values) = 0
     THEN [returned |-> TRUE, content |-> templateContent,
           result |-> BackupResult(file.path, FALSE,
                        IF localContent.txt = templateWithBuiltins THEN ""
                        ELSE "Structure mismatch - cannot extract variables")]
     ELSE [returned |-> FALSE,
           content |-> TextFile(replaceValuesWithPlaceholders(localContent.txt, values)),
           result |-> BackupResult(file.path, FALSE, "")]

\* a backupFile whose dry run writes the template as well
backupFileDryRunWrites(files, file, templateDir, dryRun) ==
  LET localPath == TargetPath(file.path)
      templatePath == TemplatePath(templateDir, file.path)
      localContent == files[localPath]
      templateContent == files[templatePath]
      branch == IF file.strategy = "jq-merge" /\ file.jq_path # <<>>
                THEN backupJqMerge(file, localContent, templateContent)
                ELSE backupReplace(file, localContent, templateContent)
  IN IF ~fileExists(files, localPath)
     THEN [files |-> files,
           result |-> BackupResult(file.path, FALSE, "Local file does not exist")]
     ELSE IF ~fileExists(files, templatePath)
     THEN [files |-> files,
           result |-> BackupResult(file.path, FALSE, "Template file does not exist")]
     ELSE IF branch.returned THEN [files |-> files, result |-> branch.result]
     ELSE IF branch.content = templateContent
     THEN [files |-> files, result |-> BackupResult(file.path, FALSE, "")]
     ELSE [files |-> [files EXCEPT ![templatePath] = branch.content],
           result |-> BackupResult(file.path, TRUE, "")]

\* backupFile(file, templateDir, homeDir, dryRun): [files, result]
backupFile(files, file, templateDir, dryRun) ==
  LET localPath == TargetPath(file.path)
      templatePath == TemplatePath(templateDir, file.path)
      localContent == files[localPath]
      templateContent == files[templatePath]
      branch == IF file.strategy = "jq-merge" /\ file.jq_path # <<>>
                THEN backupJqMerge(file, localContent, templateContent)
                ELSE backupReplace(file, localContent, templateContent)
  IN IF ~fileExists(files, localPath)
     THEN [files |-> files,
           result |-> BackupResult(file.path, FALSE, "Local file does not exist")]
     ELSE IF ~fileExists(files, templatePath)
     THEN [files |-> files,
           result |-> BackupResult(file.path, FALSE, "Template file does not exist")]
     ELSE IF branch.returned THEN [files |-> files, result |-> branch.result]
     ELSE IF branch.content = templateContent
     THEN [files |-> files, result |-> BackupResult(file.path, FALSE, "")]
     ELSE [files |-> IF dryRun THEN files
                     ELSE [files EXCEPT ![templatePath] = branch.content],
           result |-> BackupResult(file.path, TRUE, "")]

(***************************************************************************)
(* Step ids.  DiscoveredIds are the directories that hold a step.json, in  *)
(* discovery order; GhostId is an id that names no discovered step.        *)
(***************************************************************************)
DiscoveredIds == <<"a", "b", "c">>

GhostId == "g"

AllIds == SeqToSet(DiscoveredIds) \cup {GhostId}

FilePaths == {"p", "q", "r"}

AllPaths ==
  {TemplatePath(d, f) : d \in SeqToSet(DiscoveredIds), f \in FilePaths}
    \cup {TargetPath(f) : f \in FilePaths}
    \cup {BackupPath(f) : f \in FilePaths}
    \cup {CorruptBackupPath(f) : f \in FilePaths}
    \cup {TmpPath(f) : f \in FilePaths}

VARIABLES
  steps,          \* DiscoveredStep[]: the discovered steps, in discovery order
  selectedSteps,  \* options.steps: [defined, ids]
  platform,       \* process.platform
  dryRun,         \* options.dryRun
  variables,      \* CollectedVariables: <<[k, v], ...>> in property order
  files,          \* the file system: path -> content
  graph,          \* the DependencyGraph built by main, or the error thrown
  pc,             \* position of the running operation
  cur,            \* executeSteps: index into order of the step being executed
  results,        \* executeSteps: ExecutionResult[]
  log,            \* the scripts run and template syncs made, in order
  syncResult,     \* outcome of the last syncTemplates: [thrown, warnings]
  backupResult,   \* the last BackupResult
  extracted,      \* the Map returned by the last extraction
  noInput,        \* options.noInput
  overrides,      \* the variable overrides of the command line: <<[k, v], ...>>
  env,            \* process.env: <<[k, v], ...>>
  variableDefs,   \* the Map returned by collectVariableDefinitions
  push            \* pushLocalConfig: the repository [isRepo, clean, commands] and
                  \* the locals [status, existingLocalFiles]

vars ==
  <<steps, selectedSteps, platform, dryRun, variables, files, graph, pc, cur,
    results, log, syncResult, backupResult, extracted, noInput, overrides, env,
    variableDefs, push>>

\* the inputs and the state of variable collection
collection == <<noInput, overrides, env, variableDefs>>

\* no variable collection: main run with the variables already collected
NoCollection ==
  /\ noInput = FALSE
  /\ overrides = <<>>
  /\ env = <<>>
  /\ variableDefs = <<>>

\* the repository before a push: isRepo, the booti repository is the
\* working directory; clean, its working tree has no change; commands, the
\* git commands run that act on it; status and existingLocalFiles are
\* unset until pushLocalConfig computes them
Repository(isRepo, clean) ==
  [isRepo |-> isRepo, clean |-> clean, commands |-> <<>>, status |-> "none",
   existingLocalFiles |-> <<>>]

\* no push is made
NoPush == push = Repository(TRUE, TRUE)

(***************************************************************************)
(* Dependency graph (core/dependencies).                                   *)
(***************************************************************************)
\* new Map(steps.map(s => [s.id, s])): has / get
MapHas(stepList, id) == \E i \in 1..Len(stepList) : stepList[i].id = id

MapGet(stepList, id) ==
  stepList[CHOOSE i \in 1..Len(stepList) :
             /\ stepList[i].id = id
             /\ \A j \in (i+1)..Len(stepList) : stepList[j].id # id]

\* the reverse dependency map: for each discovered id, the ids of the steps
\* that list it, one entry per listing, in discovery order
RECURSIVE CountIn(_, _)
CountIn(x, s) ==
  IF s = <<>> THEN 0 ELSE (IF Head(s) = x THEN 1 ELSE 0) + CountIn(x, Tail(s))

RECURSIVE Repeat(_, _)
Repeat(x, n) == IF n = 0 THEN <<>> ELSE <<x>> \o Repeat(x, n - 1)

RECURSIVE DependentsOf(_, _, _)
DependentsOf(stepList, id, i) ==
  IF i > Len(stepList) THEN <<>>
  ELSE Repeat(stepList[i].id, CountIn(id, stepList[i].dependencies))
         \o DependentsOf(stepList, id, i + 1)

buildDependents(stepList) ==
  [id \in {stepList[i].id : i \in 1..Len(stepList)} |-> DependentsOf(stepList, id, 1)]

\* new Set(array): the distinct elements in first-occurrence order
RECURSIVE SetOfArray(_)
SetOfArray(s) ==
  IF s = <<>> THEN <<>>
  ELSE LET r == SetOfArray(SubSeq(s, 1, Len(s) - 1))
       IN IF InSeq(s[Len(s)], r) THEN r ELSE Append(r, s[Len(s)])

\* addDependencies: st = [stp, auto], stp the insertion-ordered Set stepsToProcess
RECURSIVE addDependencies(_, _, _), addDependenciesLoop(_, _, _, _)
addDependencies(stepList, st, stepId) ==
  IF ~MapHas(stepList, stepId) THEN st
  ELSE addDependenciesLoop(stepList, st, MapGet(stepList, stepId).dependencies, 1)

addDependenciesLoop(stepList, st, deps, i) ==
  IF i > Len(deps) THEN st
  ELSE IF ~InSeq(deps[i], st.stp)
       THEN addDependenciesLoop(stepList,
              addDependencies(stepList,
                [stp |-> Append(st.stp, deps[i]), auto |-> Append(st.auto, deps[i])],
                deps[i]),
              deps, i + 1)
       ELSE addDependenciesLoop(stepList, st, deps, i + 1)

\* topologicalSort.visit: st = [visited, visiting, result, thrown, errId]
RECURSIVE visit(_, _, _, _), visitDeps(_, _, _, _, _)
\* visit that appends a step before it has visited its dependencies
visitAppendFirst(stepList, include, st, stepId) ==
  IF st.thrown THEN st
  ELSE IF stepId \in st.visited THEN st
  ELSE IF stepId \in st.visiting THEN [st EXCEPT !.thrown = TRUE, !.errId = stepId]
  ELSE IF ~MapHas(stepList, stepId) THEN st
  ELSE IF include.defined /\ ~InSeq(stepId, include.ids) THEN st
  ELSE LET st1 == visitDeps(stepList, include,
                            [st EXCEPT !.visiting = @ \cup {stepId},
                                       !.result = Append(@, stepId)],
                            MapGet(stepList, stepId).dependencies, 1)
       IN IF st1.thrown THEN st1
          ELSE [st1 EXCEPT !.visiting = @ \ {stepId},
                           !.visited = @ \cup {stepId}]

\* visit that takes a step in progress for a finished one
visitNoCycleCheck(stepList, include, st, stepId) ==
  IF st.thrown THEN st
  ELSE IF stepId \in st.visited \/ stepId \in st.visiting THEN st
  ELSE IF ~MapHas(stepList, stepId) THEN st
  ELSE IF include.defined /\ ~InSeq(stepId, include.ids) THEN st
  ELSE LET st1 == visitDeps(stepList, include,
                            [st EXCEPT !.visiting = @ \cup {stepId}],
                            MapGet(stepList, stepId).dependencies, 1)
       IN [st1 EXCEPT !.visiting = @ \ {stepId},
                      !.visited = @ \cup {stepId},
                      !.result = Append(@, stepId)]

\* visit that takes a second visit of a finished step for a cycle
visitRaisesOnRevisit(stepList, include, st, stepId) ==
  IF st.thrown THEN st
  ELSE IF stepId \in st.visited \/ stepId \in st.visiting
  THEN [st EXCEPT !.thrown = TRUE, !.errId = stepId]
  ELSE IF ~MapHas(stepList, stepId) THEN st
  ELSE IF include.defined /\ ~InSeq(stepId, include.ids) THEN st
  ELSE LET st1 == visitDeps(stepList, include,
                            [st EXCEPT !.visiting = @ \cup {stepId}],
                            MapGet(stepList, stepId).dependencies, 1)
       IN IF st1.thrown THEN st1
          ELSE [st1 EXCEPT !.visiting = @ \ {stepId},
                           !.visited = @ \cup {stepId},
                           !.result = Append(@, stepId)]

visit(stepList, include, st, stepId) ==
  IF st.thrown THEN st
  ELSE IF stepId \in st.visited THEN st
  ELSE IF stepId \in st.visiting THEN [st EXCEPT !.thrown = TRUE, !.errId = stepId]
  ELSE IF ~MapHas(stepList, stepId) THEN st
  ELSE IF include.defined /\ ~InSeq(stepId, include.ids) THEN st
  ELSE LET st1 == visitDeps(stepList, include,
                            [st EXCEPT !.visiting = @ \cup {stepId}],
                            MapGet(stepList, stepId).dependencies, 1)
       IN IF st1.thrown THEN st1
          ELSE [st1 EXCEPT !.visiting = @ \ {stepId},
                           !.visited = @ \cup {stepId},
                           !.result = Append(@, stepId)]

visitDeps(stepList, include, st, deps, i) ==
  IF i > Len(deps) \/ st.thrown THEN st
  ELSE visitDeps(stepList, include, visit(stepList, include, st, deps[i]), deps, i + 1)

RECURSIVE visitAll(_, _, _, _, _)
visitAll(stepList, include, st, ids, i) ==
  IF i > Len(ids) \/ st.thrown THEN st
  ELSE visitAll(stepList, include, visit(stepList, include, st, ids[i]), ids, i + 1)

\* topologicalSort(steps, includeSteps): [thrown, errId, result]
topologicalSort(stepList, include) ==
  LET stepsToVisit == IF include.defined THEN include.ids
                      ELSE [i \in 1..Len(stepList) |-> stepList[i].id]
      st == visitAll(stepList, include,
                     [visited |-> {}, visiting |-> {}, result |-> <<>>,
                      thrown |-> FALSE, errId |-> ""],
                     stepsToVisit, 1)
  IN [thrown |-> st.thrown, errId |-> st.errId, result |-> st.result]

RECURSIVE addAllDependencies(_, _, _, _)
addAllDependencies(stepList, st, sel, i) ==
  IF i > Len(sel) THEN st
  ELSE addAllDependencies(stepList, addDependencies(stepList, st, sel[i]), sel, i + 1)

\* buildDependencyGraph(steps, selectedSteps)
buildDependencyGraph(stepList, selected) ==
  LET st0 == [stp  |-> IF selected.defined THEN SetOfArray(selected.ids)
                       ELSE [i \in 1..Len(stepList) |-> stepList[i].id],
              auto |-> <<>>]
      st  == IF selected.defined
             THEN addAllDependencies(stepList, st0, selected.ids, 1)
             ELSE st0
      ts  == topologicalSort(stepList, [defined |-> TRUE, ids |-> st.stp])
  IN [thrown |-> ts.thrown, errId |-> ts.errId,
      order |-> ts.result,
      dependents |-> buildDependents(stepList),
      autoIncluded |-> st.auto]

NoGraph ==
  [thrown |-> FALSE, errId |-> "", order |-> <<>>,
   dependents |-> [id \in SeqToSet(DiscoveredIds) |-> <<>>], autoIncluded |-> <<>>]

(***************************************************************************)
(* Step execution (core/executor).                                         *)
(***************************************************************************)
\* skipReason is the empty text unless the step was skipped
ExecutionResult(stepId, success, skipped, error) ==
  [step |-> stepId, success |-> success, skipped |-> skipped, error |-> error,
   skipReason |-> <<>>]

\* exit codes a script may end with
ExitCodes == {0, 1}

CurrentStep == MapGet(steps, graph.order[cur])

\* !result.success && !result.skipped
IsFailure(result) == ~result.success /\ ~result.skipped

\* main: const { order, autoIncluded } = buildDependencyGraph(steps, options.steps);
\* an error thrown ends the process in main().catch
BuildGraph ==
  /\ pc = "start"
  /\ graph' = buildDependencyGraph(steps, selectedSteps)
  /\ pc' = IF graph'.thrown THEN "fatal" ELSE "exec"
  /\ UNCHANGED <<push, collection, steps, selectedSteps, platform, dryRun, variables, files, cur,
                 results, log, syncResult, backupResult, extracted>>

\* a head of the loop that executes a step whatever its platforms
NextStepAnyPlatform ==
  /\ pc = "exec"
  /\ cur <= Len(graph.order)
  /\ IF ~MapHas(steps, graph.order[cur])
     THEN /\ results' = Append(results,
                          ExecutionResult(graph.order[cur], FALSE, FALSE, "Step not found"))
          /\ cur' = cur + 1
          /\ pc' = pc
     ELSE /\ pc' = "pre"
          /\ UNCHANGED <<results, cur>>
  /\ UNCHANGED <<push, collection, steps, selectedSteps, platform, dryRun, variables, files, graph,
                 log, syncResult, backupResult, extracted>>

\* executeSteps: the head of the loop over order
NextStep ==
  /\ pc = "exec"
  /\ cur <= Len(graph.order)
  /\ LET stepId == graph.order[cur]
     IN IF ~MapHas(steps, stepId)
        THEN /\ results' = Append(results,
                             ExecutionResult(stepId, FALSE, FALSE, "Step not found"))
             /\ cur' = cur + 1
             /\ pc' = pc
        ELSE IF platform \notin MapGet(steps, stepId).platforms
        THEN /\ results' = Append(results,
                             [ExecutionResult(stepId, TRUE, TRUE, "") EXCEPT
                                !.skipReason = <<"Not supported on", platform>>])
             /\ cur' = cur + 1
             /\ pc' = pc
        ELSE /\ pc' = "pre"
             /\ UNCHANGED <<results, cur>>
  /\ UNCHANGED <<push, collection, steps, selectedSteps, platform, dryRun, variables, files, graph,
                 log, syncResult, backupResult, extracted>>

\* executeSteps: the loop is over
FinishSteps ==
  /\ pc = "exec"
  /\ cur > Len(graph.order)
  /\ pc' = "done"
  /\ UNCHANGED <<push, collection, steps, selectedSteps, platform, dryRun, variables, files, graph,
                 cur, results, log, syncResult, backupResult, extracted>>

\* executeStep, phase 1: pre.sh
RunPreScript ==
  /\ pc = "pre"
  /\ IF CurrentStep.hasPreScript
     THEN \E exitCode \in ExitCodes :
            /\ log' = Append(log, <<"pre", CurrentStep.id>>)
            /\ IF exitCode # 0
               THEN /\ results' = Append(results,
                                    ExecutionResult(CurrentStep.id, FALSE, FALSE,
                                                    "Pre-script failed"))
                    /\ pc' = "done"
               ELSE /\ pc' = "sync"
                    /\ UNCHANGED results
     ELSE /\ pc' = "sync"
          /\ UNCHANGED <<results, log>>
  /\ UNCHANGED <<push, collection, steps, selectedSteps, platform, dryRun, variables, files, graph,
                 cur, syncResult, backupResult, extracted>>

\* a phase 2 that goes on to the post-script after an error of the sync
SyncStepTemplatesGoesOn ==
  /\ pc = "sync"
  /\ IF CurrentStep.templateDir /\ Len(CurrentStep.files) > 0
     THEN LET r == syncTemplates(files, CurrentStep.id, CurrentStep.files,
                                 dryRun, variables)
          IN /\ files' = r.files
             /\ syncResult' = [thrown |-> r.thrown, warnings |-> r.warnings]
             /\ log' = Append(log, <<"sync", CurrentStep.id>>)
             /\ pc' = "post"
             /\ UNCHANGED results
     ELSE /\ pc' = "post"
          /\ UNCHANGED <<files, syncResult, log, results>>
  /\ UNCHANGED <<push, collection, steps, selectedSteps, platform, dryRun, variables, graph,
                 cur, backupResult, extracted>>

\* executeStep, phase 2: syncTemplates
SyncStepTemplates ==
  /\ pc = "sync"
  /\ IF CurrentStep.templateDir /\ Len(CurrentStep.files) > 0
     THEN LET r == syncTemplates(files, CurrentStep.id, CurrentStep.files,
                                 dryRun, variables)
          IN /\ files' = r.files
             /\ syncResult' = [thrown |-> r.thrown, warnings |-> r.warnings]
             /\ log' = Append(log, <<"sync", CurrentStep.id>>)
             /\ IF r.thrown
                THEN /\ results' = Append(results,
                                     ExecutionResult(CurrentStep.id, FALSE, FALSE,
                                                     "Sync failed"))
                     /\ pc' = "done"
                ELSE /\ pc' = "post"
                     /\ UNCHANGED results
     ELSE /\ pc' = "post"
          /\ UNCHANGED <<files, syncResult, log, results>>
  /\ UNCHANGED <<push, collection, steps, selectedSteps, platform, dryRun, variables, graph, cur,
                 backupResult, extracted>>

\* the post-script phase of a loop that does not stop at a failed step
RunPostScriptNoBreak ==
  /\ pc = "post"
  /\ IF CurrentStep.hasPostScript
     THEN \E exitCode \in ExitCodes :
            /\ log' = Append(log, <<"post", CurrentStep.id>>)
            /\ results' = Append(results,
                            ExecutionResult(CurrentStep.id, exitCode = 0, FALSE,
                              IF exitCode = 0 THEN "" ELSE "Post-script failed"))
            /\ cur' = cur + 1
            /\ pc' = "exec"
     ELSE /\ results' = Append(results, ExecutionResult(CurrentStep.id, TRUE, FALSE, ""))
          /\ cur' = cur + 1
          /\ pc' = "exec"
          /\ UNCHANGED log
  /\ UNCHANGED <<push, collection, steps, selectedSteps, platform, dryRun, variables, files, graph,
                 syncResult, backupResult, extracted>>

\* executeStep, phase 3: post.sh, and the return to executeSteps
RunPostScript ==
  /\ pc = "post"
  /\ IF CurrentStep.hasPostScript
     THEN \E exitCode \in ExitCodes :
            /\ log' = Append(log, <<"post", CurrentStep.id>>)
            /\ IF exitCode # 0
               THEN /\ results' = Append(results,
                                    ExecutionResult(CurrentStep.id, FALSE, FALSE,
                                                    "Post-script failed"))
                    /\ pc' = "done"
                    /\ UNCHANGED cur
               ELSE /\ results' = Append(results,
                                    ExecutionResult(CurrentStep.id, TRUE, FALSE, ""))
                    /\ cur' = cur + 1
                    /\ pc' = "exec"
     ELSE /\ results' = Append(results, ExecutionResult(CurrentStep.id, TRUE, FALSE, ""))
          /\ cur' = cur + 1
          /\ pc' = "exec"
          /\ UNCHANGED log
  /\ UNCHANGED <<push, collection, steps, selectedSteps, platform, dryRun, variables, files, graph,
                 syncResult, backupResult, extracted>>

(***************************************************************************)
(* The inputs of a run: the discovered steps with every assignment of      *)
(* dependency lists of at most MaxEdges entries in all, every --steps      *)
(* list, both platforms, with and without --dry-run.                       *)
(***************************************************************************)
FileConfig(path, strategy, jqPath) ==
  [path |-> path, strategy |-> strategy, jq_path |-> jqPath]

\* the step directories: what each discovered step holds besides its
\* dependencies
\* a Variable of a step.json; an absent default is the empty text
Variable(type, description, default, required) ==
  [type |-> type, description |-> description, default |-> default,
   required |-> required]

StepCatalog ==
  [a |-> [platforms |-> {"darwin"}, hasPreScript |-> TRUE, hasPostScript |-> TRUE,
          templateDir |-> TRUE,
          files |-> <<FileConfig("p", "replace", <<>>)>>,
          variables |-> <<KV(<<"A">>, Variable("string", "a", <<>>, TRUE))>>],
   b |-> [platforms |-> {"darwin", "linux"}, hasPreScript |-> FALSE,
          hasPostScript |-> TRUE, templateDir |-> TRUE,
          files |-> <<FileConfig("q", "jq-merge", <<".", "m">>)>>,
          variables |-> <<KV(<<"B">>, Variable("secret", "b", <<>>, TRUE)),
                          KV(<<"A">>, Variable("string", "b", <<"e">>, FALSE))>>],
   c |-> [platforms |-> {"linux"}, hasPreScript |-> TRUE, hasPostScript |-> FALSE,
          templateDir |-> TRUE,
          files |-> <<FileConfig("r", "jq-merge", <<".">>)>>,
          variables |-> <<KV(<<"B">>, Variable("string", "c", <<"f">>, TRUE))>>]]

DiscoveredStep(id, dependencies) ==
  [id |-> id, dependencies |-> dependencies,
   platforms |-> StepCatalog[id].platforms,
   hasPreScript |-> StepCatalog[id].hasPreScript,
   hasPostScript |-> StepCatalog[id].hasPostScript,
   templateDir |-> StepCatalog[id].templateDir,
   files |-> StepCatalog[id].files,
   variables |-> StepCatalog[id].variables]

\* a's template is text, b's a JSON document, c's is not valid JSON
RunFiles ==
  [path \in AllPaths |->
     IF path = TemplatePath("a", "p")
       THEN TextFile(<<"k", "=">> \o Placeholder(<<"A">>))
     ELSE IF path = TemplatePath("b", "q")
       THEN JsonFile("pretty", JObj(<<KV(<<"t">>, JStr(Placeholder(<<"A">>)))>>))
     ELSE IF path = TemplatePath("c", "r")
       THEN TextFile(<<"{">>)
     ELSE Absent]

RunVariables == <<KV(<<"A">>, <<"x">>)>>

DepAssignments(maxEdges) ==
  UNION {UNION {{<<d1, d2, d3>> : d3 \in SeqsUpTo(AllIds, maxEdges - Len(d1) - Len(d2))} :
                 d2 \in SeqsUpTo(AllIds, maxEdges - Len(d1))} :
           d1 \in SeqsUpTo(AllIds, maxEdges)}

Selections(maxSel) ==
  {[defined |-> FALSE, ids |-> <<>>]}
    \cup {[defined |-> TRUE, ids |-> sel] : sel \in SeqsUpTo(AllIds, maxSel) \ {<<>>}}

InitRun(maxEdges, maxSel, platforms, dryRuns) ==
  /\ \E d \in DepAssignments(maxEdges) :
       steps = [i \in 1..Len(DiscoveredIds) |-> DiscoveredStep(DiscoveredIds[i], d[i])]
  /\ selectedSteps \in Selections(maxSel)
  /\ platform \in platforms
  /\ dryRun \in dryRuns
  /\ variables = RunVariables
  /\ files = RunFiles
  /\ graph = NoGraph
  /\ pc = "start"
  /\ cur = 1
  /\ results = <<>>
  /\ log = <<>>
  /\ syncResult = [thrown |-> FALSE, warnings |-> <<>>]
  /\ backupResult = BackupResult("", FALSE, "")
  /\ extracted = <<>>
  /\ NoCollection
  /\ NoPush

Init == InitRun(MaxRunEdges, MaxRunSel, {"darwin", "linux"}, BOOLEAN)

Next ==
  \/ BuildGraph
  \/ NextStep
  \/ FinishSteps
  \/ RunPreScript
  \/ SyncStepTemplates
  \/ RunPostScript

Spec == Init /\ [][Next]_vars

\* the runs of steps a and b, b after a, each with or without a pre- and a
\* post-script and with one file: replaced from a text template, merged
\* from a JSON template, or merged from a template that is not JSON
PhaseFiles ==
  {[strategy |-> "replace", template |-> TextFile(<<"k", "=">> \o Placeholder(<<"A">>))],
   [strategy |-> "jq-merge",
    template |-> JsonFile("pretty", JObj(<<KV(<<"t">>, JStr(Placeholder(<<"A">>)))>>))],
   [strategy |-> "jq-merge", template |-> TextFile(<<"{">>)]}

InitPhases ==
  /\ \E preA, postA, preB, postB \in BOOLEAN :
       \E fa, fb \in PhaseFiles :
         /\ steps =
              <<[DiscoveredStep("a", <<>>) EXCEPT
                   !.hasPreScript = preA, !.hasPostScript = postA,
                   !.files = <<FileConfig("p", fa.strategy, <<".">>)>>],
                [DiscoveredStep("b", <<"a">>) EXCEPT
                   !.hasPreScript = preB, !.hasPostScript = postB,
                   !.files = <<FileConfig("q", fb.strategy, <<".">>)>>]>>
         /\ files = [path \in AllPaths |->
                       IF path = TemplatePath("a", "p") THEN fa.template
                       ELSE IF path = TemplatePath("b", "q") THEN fb.template
                       ELSE Absent]
  /\ selectedSteps = [defined |-> FALSE, ids |-> <<>>]
  /\ platform = "darwin"
  /\ dryRun \in BOOLEAN
  /\ variables = RunVariables
  /\ graph = NoGraph
  /\ pc = "start"
  /\ cur = 1
  /\ results = <<>>
  /\ log = <<>>
  /\ syncResult = [thrown |-> FALSE, warnings |-> <<>>]
  /\ backupResult = BackupResult("", FALSE, "")
  /\ extracted = <<>>
  /\ NoCollection
  /\ NoPush

SpecPhases == InitPhases /\ [][Next]_vars

\* building the dependency graph alone, over the larger set of graphs
InitGraph == InitRun(MaxEdges, MaxSel, {"darwin"}, {FALSE})

NextGraph == BuildGraph

SpecGraph == InitGraph /\ [][NextGraph]_vars

(***************************************************************************)
(* One file of one step, its template and the local file on the machine:   *)
(* the inputs of extraction and of a backup without --dry-run.  Text       *)
(* templates are every concatenation of at most MaxTokens tokens; JSON     *)
(* templates hold such strings as a field, inside an array and inside a    *)
(* nested object.                                                          *)
(***************************************************************************)
Tokens == {Placeholder(<<"A">>), Placeholder(<<"B">>), Placeholder(HOME), <<"x">>}

RECURSIVE Concat(_)
Concat(ss) == IF ss = <<>> THEN <<>> ELSE Head(ss) \o Concat(Tail(ss))

TextTemplates(maxTokens) ==
  {TextFile(Concat(ts)) : ts \in SeqsUpTo(Tokens, maxTokens) \ {<<>>}}

\* the strings of a JSON template
Leaves ==
  {Placeholder(<<"A">>), Placeholder(<<"B">>), Placeholder(HOME), <<"x">>,
   <<"x">> \o Placeholder(<<"A">>), Placeholder(<<"A">>) \o Placeholder(<<"B">>)}

NestedLeaves == {Placeholder(<<"B">>), <<"x">>}

JsonTemplates ==
  {JsonFile(fmt,
     JObj(<<KV(<<"t">>, IF inArray THEN JArr(<<KV(<<"0">>, JStr(s1))>>) ELSE JStr(s1)),
            KV(<<"m">>, JObj(<<KV(<<"s">>, JStr(s2))>>))>>)) :
     fmt \in {"pretty", "compact"}, inArray \in BOOLEAN,
     s1 \in Leaves, s2 \in NestedLeaves}

JqPaths == {<<".">>, <<".", "m">>}

BackupCases(maxTokens) ==
  {[file |-> FileConfig("p", "replace", <<>>), template |-> t] :
     t \in TextTemplates(maxTokens)}
    \cup {[file |-> FileConfig("p", "jq-merge", jq), template |-> t] :
            jq \in JqPaths, t \in JsonTemplates}

\* the values a variable may hold: the empty text, runs of a character of
\* the templates' literal text or of the home directory, and a text that is
\* itself a placeholder
Values(maxLen) ==
  {[i \in 1..n |-> c] : n \in 0..maxLen, c \in {"x", "/"}} \cup {Placeholder(<<"B">>)}

\* the local file: as materialized from the template, or edited since
LocalKinds(template) ==
  IF IsJsonText(template) THEN {"fresh", "edited", "editedNested"} ELSE {"fresh", "edited"}

LocalContent(kind, materialized) ==
  IF kind = "fresh" THEN materialized
  ELSE IF ~IsJsonText(materialized) THEN TextFile(materialized.txt \o <<"!">>)
  ELSE IF kind = "edited"
       THEN JsonFile(materialized.fmt, PutKey(materialized.json, <<"b">>, JStr(<<"y">>)))
  ELSE JsonFile(materialized.fmt,
                PutKey(materialized.json, <<"m">>,
                       PutKey(GetKey(materialized.json, <<"m">>), <<"b">>, JStr(<<"y">>))))

\* a file about to be backed up, with --dry-run given or not
BackupState(dry) ==
  /\ \E c \in BackupCases(MaxTokens) :
       \E va, vb \in Values(MaxValueLen) :
         \E kind \in LocalKinds(c.template) :
           /\ steps = <<[DiscoveredStep("a", <<>>) EXCEPT !.files = <<c.file>>]>>
           /\ variables = <<KV(<<"A">>, va), KV(<<"B">>, vb)>>
           /\ files = [path \in AllPaths |->
                         IF path = TemplatePath("a", "p") THEN c.template
                         ELSE IF path = TargetPath("p")
                           THEN LocalContent(kind, substituteVariables(c.template, variables))
                         ELSE Absent]
  /\ selectedSteps = [defined |-> FALSE, ids |-> <<>>]
  /\ platform = "darwin"
  /\ dryRun = dry
  /\ graph = NoGraph
  /\ pc = "local"
  /\ cur = 1
  /\ results = <<>>
  /\ log = <<>>
  /\ syncResult = [thrown |-> FALSE, warnings |-> <<>>]
  /\ backupResult = BackupResult("", FALSE, "")
  /\ extracted = <<>>
  /\ NoCollection
  /\ NoPush

InitBackup == BackupState(FALSE)

\* extractVariablesFromExistingFiles, the extraction from one file: by the
\* file's strategy, the template matched against the local file
ExtractFromFile ==
  /\ pc = "local"
  /\ LET file == steps[1].files[1]
         localContent == files[TargetPath(file.path)]
         templateContent == files[TemplatePath(steps[1].id, file.path)]
     IN extracted' =
          IF file.strategy = "jq-merge" /\ file.jq_path # <<>>
          THEN (IF IsJsonText(localContent) /\ IsJsonText(templateContent)
                THEN extractValuesFromJson(templateContent.json, localContent.json,
                                           file.jq_path)
                ELSE <<>>)
          ELSE extractValuesFromText(templateContent.txt, localContent.txt)
  /\ pc' = "extracted"
  /\ UNCHANGED <<push, collection, steps, selectedSteps, platform, dryRun, variables, files, graph,
                 cur, results, log, syncResult, backupResult>>

\* runBackup, one file: backupFile(file, step.templateDir, homeDir, dryRun)
BackupOneFile ==
  /\ pc = "extracted"
  /\ LET r == backupFile(files, steps[1].files[1], steps[1].id, dryRun)
     IN /\ files' = r.files
        /\ backupResult' = r.result
  /\ pc' = "backed"
  /\ UNCHANGED <<push, collection, steps, selectedSteps, platform, dryRun, variables, graph, cur,
                 results, log, syncResult, extracted>>

NextBackup ==
  \/ ExtractFromFile
  \/ BackupOneFile

SpecBackup == InitBackup /\ [][NextBackup]_vars

\* booti --backup --dry-run
SpecBackupDryRun == BackupState(TRUE) /\ [][NextBackup]_vars

(***************************************************************************)
(* A backup of a replace-strategy file whose local text is any text of at  *)
(* most MaxLocalLen characters: the values put back as placeholders are    *)
(* whatever the extraction finds in it.                                    *)
(***************************************************************************)
LocalChars == {"x", "A", " "}

RestoreTemplates ==
  {TextFile(Placeholder(<<"A">>)),
   TextFile(Placeholder(<<"A">>) \o <<" ">> \o Placeholder(<<"B">>)),
   TextFile(<<"x">> \o Placeholder(<<"B">>) \o <<" ">> \o Placeholder(<<"A">>))}

\* the state before extraction and backup of the one file of step a
OneFileState(file, template, local) ==
  /\ steps = <<[DiscoveredStep("a", <<>>) EXCEPT !.files = <<file>>]>>
  /\ files = [path \in AllPaths |->
                IF path = TemplatePath("a", file.path) THEN template
                ELSE IF path = TargetPath(file.path) THEN local
                ELSE Absent]
  /\ selectedSteps = [defined |-> FALSE, ids |-> <<>>]
  /\ platform = "darwin"
  /\ dryRun = FALSE
  /\ graph = NoGraph
  /\ pc = "local"
  /\ cur = 1
  /\ results = <<>>
  /\ log = <<>>
  /\ syncResult = [thrown |-> FALSE, warnings |-> <<>>]
  /\ backupResult = BackupResult("", FALSE, "")
  /\ extracted = <<>>
  /\ NoCollection
  /\ NoPush

InitRestore ==
  /\ variables = <<>>
  /\ \E template \in RestoreTemplates :
       \E local \in SeqsUpTo(LocalChars, MaxLocalLen) :
         OneFileState(FileConfig("p", "replace", <<>>), template, TextFile(local))

SpecRestore == InitRestore /\ [][NextBackup]_vars

(***************************************************************************)
(* Push (core/push): the local files copied back into the step templates.  *)
(***************************************************************************)
\* obj.match(/\$\{([^}]+)\}/) finds a match
matchesPlaceholder(str) ==
  \E i \in 1..Len(str) :
    /\ LitAt(str, i, <<"$", "{">>)
    /\ i + 2 <= Len(str)
    /\ str[i + 2] # "}"
    /\ \E j \in (i + 3)..Len(str) : str[j] = "}"

\* findPlaceholders(obj, path): <<[path, placeholder], ...>>
RECURSIVE findPlaceholders(_, _), findPlaceholdersIn(_, _, _)
findPlaceholders(obj, path) ==
  IF obj.t = "str"
  THEN (IF matchesPlaceholder(obj.s)
        THEN <<[path |-> path, placeholder |-> obj.s]>>
        ELSE <<>>)
  ELSE IF IsObjectLike(obj) THEN findPlaceholdersIn(obj.o, path, 1)
  ELSE <<>>

findPlaceholdersIn(entries, path, i) ==
  IF i > Len(entries) THEN <<>>
  ELSE findPlaceholders(entries[i].v, Append(path, entries[i].k))
         \o findPlaceholdersIn(entries, path, i + 1)

\* getAtPath(obj, path)
RECURSIVE getAtParts(_, _, _)
getAtParts(current, path, i) ==
  IF i > Len(path) THEN current
  ELSE IF IsObjectLike(current) THEN getAtParts(GetKey(current, path[i]), path, i + 1)
  ELSE JUndefined

getAtPath(obj, path) == getAtParts(obj, path, 1)

\* setAtPath(obj, path, value): obj after the assignment.  The walk stops
\* descending at a value that is no object, and the assignment is made only
\* into an object; the key of an empty path is path[-1], "undefined".
RECURSIVE setAtParts(_, _, _, _)
setAtParts(current, path, i, value) ==
  IF ~IsObjectLike(current) THEN current
  ELSE IF i >= Len(path)
  THEN PutKey(current,
              IF Len(path) = 0 THEN <<"u", "n", "d", "e", "f", "i", "n", "e", "d">>
              ELSE path[Len(path)],
              value)
  ELSE PutKey(current, path[i], setAtParts(GetKey(current, path[i]), path, i + 1, value))

setAtPath(obj, path, value) == setAtParts(obj, path, 1, value)

\* an entry of replacements: the path, the local value displayed and the
\* placeholder put in its place
Replacement(path, localValue, placeholder) ==
  [path |-> path, displayValue |-> localValue, placeholder |-> placeholder]

\* the loop of sanitizeWithTemplate over placeholderLocations
RECURSIVE sanitizeLocations(_, _, _, _)
sanitizeLocations(localJson, replacements, locations, i) ==
  IF i > Len(locations)
  THEN [sanitized |-> JsonFile("compact", serializable(localJson)),
        replacements |-> replacements]
  ELSE LET path == locations[i].path
           placeholder == locations[i].placeholder
           localValue == getAtPath(localJson, path)
       IN IF localValue.t = "str" /\ localValue.s # placeholder
          THEN sanitizeLocations(setAtPath(localJson, path, JStr(placeholder)),
                                 Append(replacements,
                                        Replacement(path, localValue.s, placeholder)),
                                 locations, i + 1)
          ELSE sanitizeLocations(localJson, replacements, locations, i + 1)

\* sanitizeWithTemplate(localContent, templateContent): [sanitized, replacements]
sanitizeWithTemplate(localContent, templateContent) ==
  IF ~(IsJsonText(localContent) /\ IsJsonText(templateContent))
  THEN [sanitized |-> localContent, replacements |-> <<>>]
  ELSE sanitizeLocations(localContent.json, <<>>,
                         findPlaceholders(templateContent.json, <<>>), 1)

\* discoverFileConfigs: the files of every step, in directory order
RECURSIVE discoverFileConfigs(_, _)
discoverFileConfigs(stepList, i) ==
  IF i > Len(stepList) THEN <<>>
  ELSE [n \in 1..Len(stepList[i].files) |->
          [stepDir |-> stepList[i].id, fileConfig |-> stepList[i].files[n]]]
         \o discoverFileConfigs(stepList, i + 1)

isFile(fs, path) == fs[path].fmt # "absent"

\* existingLocalFiles: the file configs whose local file is a file
RECURSIVE existingLocalFilesFrom(_, _, _)
existingLocalFilesFrom(fs, fileConfigs, i) ==
  IF i > Len(fileConfigs) THEN <<>>
  ELSE (IF isFile(fs, TargetPath(fileConfigs[i].fileConfig.path))
        THEN <<fileConfigs[i]>> ELSE <<>>)
         \o existingLocalFilesFrom(fs, fileConfigs, i + 1)

\* a start that goes on whatever git status reports
PushStartIgnoresStatus ==
  /\ pc = "push"
  /\ LET fileConfigs == discoverFileConfigs(steps, 1)
         existingLocalFiles == existingLocalFilesFrom(files, fileConfigs, 1)
     IN IF ~push.isRepo
        THEN pc' = "exit" /\ UNCHANGED push
        ELSE /\ push' = [push EXCEPT !.status = IF push.clean THEN "clean" ELSE "dirty",
                                     !.existingLocalFiles = existingLocalFiles]
             /\ pc' = IF Len(existingLocalFiles) = 0 THEN "returned" ELSE "checkout"
  /\ UNCHANGED <<collection, steps, selectedSteps, platform, dryRun, variables, files, graph,
                 cur, results, log, syncResult, backupResult, extracted>>

\* pushLocalConfig, steps 1 to 3: the checks made before anything is
\* changed.  The process exits outside the booti repository and with a
\* working tree that is not clean; the function returns without file
\* configs or without a local file
PushStart ==
  /\ pc = "push"
  /\ LET fileConfigs == discoverFileConfigs(steps, 1)
         existingLocalFiles == existingLocalFilesFrom(files, fileConfigs, 1)
     IN IF ~push.isRepo
        THEN pc' = "exit" /\ UNCHANGED push
        ELSE IF ~push.clean
        THEN pc' = "exit" /\ push' = [push EXCEPT !.status = "dirty"]
        ELSE IF Len(fileConfigs) = 0
        THEN pc' = "returned" /\ push' = [push EXCEPT !.status = "clean"]
        ELSE /\ push' = [push EXCEPT !.status = "clean",
                                     !.existingLocalFiles = existingLocalFiles]
             /\ pc' = IF Len(existingLocalFiles) = 0 THEN "returned" ELSE "checkout"
  /\ UNCHANGED <<collection, steps, selectedSteps, platform, dryRun, variables, files, graph,
                 cur, results, log, syncResult, backupResult, extracted>>

\* pushLocalConfig, step 4: git checkout main and git pull --ff-only; a
\* failed checkout exits, a failed pull is a warning
PushCheckoutMain ==
  /\ pc = "checkout"
  /\ IF dryRun
     THEN pc' = "branch" /\ UNCHANGED push
     ELSE \E checkoutOk \in BOOLEAN :
            IF ~checkoutOk
            THEN /\ push' = [push EXCEPT !.commands = Append(@, "checkout main")]
                 /\ pc' = "exit"
            ELSE /\ push' = [push EXCEPT !.commands =
                                           @ \o <<"checkout main", "pull --ff-only">>]
                 /\ pc' = "branch"
  /\ UNCHANGED <<collection, steps, selectedSteps, platform, dryRun, variables, files, graph,
                 cur, results, log, syncResult, backupResult, extracted>>

\* pushLocalConfig, step 5: git checkout -b <branch>; a failure exits
PushCreateBranch ==
  /\ pc = "branch"
  /\ IF dryRun
     THEN pc' = "copy" /\ UNCHANGED push
     ELSE \E branchOk \in BOOLEAN :
            /\ push' = [push EXCEPT !.commands = Append(@, "checkout -b")]
            /\ pc' = IF branchOk THEN "copy" ELSE "exit"
  /\ UNCHANGED <<collection, steps, selectedSteps, platform, dryRun, variables, files, graph,
                 cur, results, log, syncResult, backupResult, extracted>>

\* pushLocalConfig, one turn of the copy loop: results is copiedFiles and
\* log is allReplacements
PushCopyFile ==
  /\ pc = "copy"
  /\ cur <= Len(discoverFileConfigs(steps, 1))
  /\ LET config == discoverFileConfigs(steps, 1)[cur]
         localPath == TargetPath(config.fileConfig.path)
         templatePath == TemplatePath(config.stepDir, config.fileConfig.path)
         s == IF isFile(files, templatePath)
              THEN sanitizeWithTemplate(files[localPath], files[templatePath])
              ELSE [sanitized |-> files[localPath], replacements |-> <<>>]
     IN IF ~isFile(files, localPath)
        THEN UNCHANGED <<files, results, log, push>>
        ELSE /\ files' = IF dryRun THEN files
                         ELSE [files EXCEPT ![templatePath] = s.sanitized]
             /\ push' = [push EXCEPT !.clean = @ /\ files' = files]
             /\ results' = Append(results, config.fileConfig.path)
             /\ log' = IF s.replacements = <<>> THEN log
                       ELSE log \o <<config.fileConfig.path>> \o s.replacements
  /\ cur' = cur + 1
  /\ UNCHANGED <<collection, steps, selectedSteps, platform, dryRun, variables, graph, pc,
                 syncResult, backupResult, extracted>>

\* pushLocalConfig after the copy loop
PushFinish ==
  /\ pc = "copy"
  /\ cur > Len(discoverFileConfigs(steps, 1))
  /\ pc' = "returned"
  /\ UNCHANGED <<push, collection, steps, selectedSteps, platform, dryRun, variables, files, graph,
                 cur, results, log, syncResult, backupResult, extracted>>

\* the template of a pushed file: none, text, or a JSON document that holds
\* placeholders as a field, in an array, in a nested object or as the whole
\* document
PushTemplates ==
  {Absent,
   TextFile(<<"k", "=">> \o Placeholder(<<"A">>)),
   JsonFile("pretty", JStr(Placeholder(<<"A">>))),
   JsonFile("pretty",
     JObj(<<KV(<<"t">>, JStr(Placeholder(<<"A">>))),
            KV(<<"m">>, JObj(<<KV(<<"s">>, JStr(<<"x">> \o Placeholder(<<"B">>)))>>))>>)),
   JsonFile("compact",
     JObj(<<KV(<<"t">>, JArr(<<KV(<<"0">>, JStr(Placeholder(<<"A">>))),
                               KV(<<"1">>, JStr(<<"x">>))>>)),
            KV(<<"n">>, JStr(<<"x">>))>>))}

\* the local file: none, text, or a JSON document
PushLocals ==
  {Absent,
   TextFile(<<"k", "=", "y">>),
   JsonFile("pretty", JStr(<<"y">>)),
   JsonFile("pretty", JStr(Placeholder(<<"A">>))),
   JsonFile("pretty",
     JObj(<<KV(<<"t">>, JStr(<<"y">>)),
            KV(<<"m">>, JObj(<<KV(<<"s">>, JStr(<<"x", "z">>))>>)),
            KV(<<"b">>, JStr(<<"y">>))>>)),
   JsonFile("pretty",
     JObj(<<KV(<<"t">>, JStr(Placeholder(<<"A">>))),
            KV(<<"m">>, JObj(<<KV(<<"s">>, JNum(<<"1">>))>>))>>)),
   JsonFile("pretty", JObj(<<KV(<<"m">>, JStr(<<"y">>)), KV(<<"n">>, JStr(<<"z">>))>>)),
   JsonFile("compact",
     JObj(<<KV(<<"t">>, JArr(<<KV(<<"0">>, JStr(<<"y">>)),
                               KV(<<"1">>, JStr(<<"z">>))>>)),
            KV(<<"n">>, JStr(<<"x">>))>>)),
   JsonFile("compact", JObj(<<KV(<<"t">>, JObj(<<KV(<<"0">>, JStr(<<"y">>))>>))>>))}

\* steps a and b: file p of a and file q of b, each with any template and
\* any local file
InitPush ==
  /\ steps = <<DiscoveredStep("a", <<>>), DiscoveredStep("b", <<>>)>>
  /\ \E tp, tq \in PushTemplates :
       \E lp, lq \in PushLocals :
         files = [path \in AllPaths |->
                    IF path = TemplatePath("a", "p") THEN tp
                    ELSE IF path = TemplatePath("b", "q") THEN tq
                    ELSE IF path = TargetPath("p") THEN lp
                    ELSE IF path = TargetPath("q") THEN lq
                    ELSE Absent]
  /\ selectedSteps = [defined |-> FALSE, ids |-> <<>>]
  /\ platform = "darwin"
  /\ dryRun \in BOOLEAN
  /\ variables = <<>>
  /\ graph = NoGraph
  /\ \E isRepo, clean \in BOOLEAN : push = Repository(isRepo, clean)
  /\ pc = "push"
  /\ cur = 1
  /\ results = <<>>
  /\ log = <<>>
  /\ syncResult = [thrown |-> FALSE, warnings |-> <<>>]
  /\ backupResult = BackupResult("", FALSE, "")
  /\ extracted = <<>>
  /\ NoCollection

NextPush ==
  \/ PushStart
  \/ PushCheckoutMain
  \/ PushCreateBranch
  \/ PushCopyFile
  \/ PushFinish

SpecPush == InitPush /\ [][NextPush]_vars

(***************************************************************************)
(* Variable collection (core/variables).                                   *)
(***************************************************************************)
\* the loop of collectVariableDefinitions over Object.entries of one step's
\* variables: defs is <<[k, v], ...>> with v = [variable, usedBy]
RECURSIVE collectFromStep(_, _, _, _)
\* a loop in which the last declaration of a name replaces the earlier one
collectFromStepLastWins(defs, stepId, declared, i) ==
  IF i > Len(declared) THEN defs
  ELSE LET varName == declared[i].k
       IN collectFromStep(
            IF MapHasKey(defs, varName)
            THEN MapSet(defs, varName,
                        [variable |-> declared[i].v,
                         usedBy |-> Append(MapGetKey(defs, varName).usedBy, stepId)])
            ELSE MapSet(defs, varName,
                        [variable |-> declared[i].v, usedBy |-> <<stepId>>]),
            stepId, declared, i + 1)

collectFromStep(defs, stepId, declared, i) ==
  IF i > Len(declared) THEN defs
  ELSE LET varName == declared[i].k
       IN collectFromStep(
            IF MapHasKey(defs, varName)
            THEN MapSet(defs, varName,
                        [MapGetKey(defs, varName) EXCEPT
                           !.usedBy = Append(@, stepId)])
            ELSE MapSet(defs, varName,
                        [variable |-> declared[i].v, usedBy |-> <<stepId>>]),
            stepId, declared, i + 1)

\* the loop of collectVariableDefinitions over executionOrder
RECURSIVE collectFromOrder(_, _, _, _)
collectFromOrder(defs, stepList, executionOrder, i) ==
  IF i > Len(executionOrder) THEN defs
  ELSE collectFromOrder(
         IF ~MapHas(stepList, executionOrder[i]) THEN defs
         ELSE collectFromStep(defs, executionOrder[i],
                              MapGet(stepList, executionOrder[i]).variables, 1),
         stepList, executionOrder, i + 1)

collectVariableDefinitions(stepList, executionOrder) ==
  collectFromOrder(<<>>, stepList, executionOrder, 1)

\* m[k] of a Record<string, string>, undefined read as the empty text
Lookup(m, k) == IF MapHasKey(m, k) THEN MapGetKey(m, k) ELSE <<>>

\* answer.trim()
RECURSIVE trimStart(_), trimEnd(_)
trimStart(str) ==
  IF str # <<>> /\ Head(str) = " " THEN trimStart(Tail(str)) ELSE str

trimEnd(str) ==
  IF str # <<>> /\ str[Len(str)] = " " THEN trimEnd(SubSeq(str, 1, Len(str) - 1))
  ELSE str

trim(str) == trimEnd(trimStart(str))

\* an entry of CollectedVariables
Collected(name, value, source) == [k |-> name, v |-> value, source |-> source]

\* what a user may type at a prompt
Answers == {<<>>, <<" ">>, <<"y">>, <<" ", "y">>}

\* main: const variableDefs = collectVariableDefinitions(steps, order)
CollectDefinitions ==
  /\ pc = "defs"
  /\ variableDefs' = collectVariableDefinitions(steps, graph.order)
  /\ pc' = "collect"
  /\ cur' = 1
  /\ UNCHANGED <<push, steps, selectedSteps, platform, dryRun, variables, files, graph,
                 results, log, syncResult, backupResult, extracted, noInput,
                 overrides, env>>

\* an existingValue that asks the environment before the overrides
existingValueEnvFirst(existingValues, varName) ==
  IF Lookup(env, varName) # <<>> THEN Lookup(env, varName)
  ELSE Lookup(existingValues, varName)

\* existingValues[varName] || process.env[varName]
existingValue(existingValues, varName) ==
  IF Lookup(existingValues, varName) # <<>> THEN Lookup(existingValues, varName)
  ELSE Lookup(env, varName)

\* a turn of the loop that prompts in no-input mode for a variable without
\* an extracted value
ResolveVariableAlwaysPrompts ==
  /\ pc = "collect"
  /\ cur <= Len(variableDefs)
  /\ LET varName == variableDefs[cur].k
     IN IF existingValue(overrides, varName) # <<>>
        THEN /\ variables' = Append(variables,
                                    Collected(varName, existingValue(overrides, varName),
                                              "existing"))
             /\ cur' = cur + 1
             /\ UNCHANGED <<pc, log>>
        ELSE IF noInput /\ MapHasKey(extracted, varName)
        THEN /\ variables' = Append(variables,
                                    Collected(varName, MapGetKey(extracted, varName),
                                              "extracted"))
             /\ cur' = cur + 1
             /\ UNCHANGED <<pc, log>>
        ELSE /\ pc' = "prompt"
             /\ UNCHANGED <<variables, cur, log>>
  /\ UNCHANGED <<push, steps, selectedSteps, platform, dryRun, files, graph, results,
                 syncResult, backupResult, extracted, noInput, overrides, env,
                 variableDefs>>

\* promptForVariables, one turn of the loop up to the prompt: the value is
\* taken from the overrides or the environment, in no-input mode from the
\* extracted values or the default, or else a prompt is shown
ResolveVariable ==
  /\ pc = "collect"
  /\ cur <= Len(variableDefs)
  /\ LET varName == variableDefs[cur].k
         variable == variableDefs[cur].v.variable
     IN IF existingValue(overrides, varName) # <<>>
        THEN /\ variables' = Append(variables,
                                    Collected(varName, existingValue(overrides, varName),
                                              "existing"))
             /\ cur' = cur + 1
             /\ UNCHANGED <<pc, log>>
        ELSE IF noInput
        THEN IF MapHasKey(extracted, varName)
             THEN /\ variables' = Append(variables,
                                    Collected(varName, MapGetKey(extracted, varName),
                                              "extracted"))
                  /\ cur' = cur + 1
                  /\ UNCHANGED <<pc, log>>
             ELSE /\ variables' = Append(variables,
                                    Collected(varName, variable.default, "default"))
                  /\ log' = IF variable.required /\ variable.default = <<>>
                            THEN Append(log, [warning |-> varName])
                            ELSE log
                  /\ cur' = cur + 1
                  /\ UNCHANGED pc
        ELSE /\ pc' = "prompt"
             /\ UNCHANGED <<variables, cur, log>>
  /\ UNCHANGED <<push, steps, selectedSteps, platform, dryRun, files, graph, results,
                 syncResult, backupResult, extracted, noInput, overrides, env,
                 variableDefs>>

\* promptVariable: the user answers the question; log keeps what was typed
AnswerPrompt ==
  /\ pc = "prompt"
  /\ \E answer \in Answers :
       LET varName == variableDefs[cur].k
           variable == variableDefs[cur].v.variable
           hasExtracted == MapHasKey(extracted, varName)
           fallbackValue == IF hasExtracted THEN MapGetKey(extracted, varName)
                            ELSE variable.default
           value == IF trim(answer) # <<>> THEN trim(answer) ELSE fallbackValue
       IN /\ variables' =
               Append(variables,
                      Collected(varName, value,
                                IF hasExtracted /\ value = MapGetKey(extracted, varName)
                                THEN "extracted" ELSE "prompt"))
          /\ log' = Append(log, [answer |-> answer])
  /\ cur' = cur + 1
  /\ pc' = "collect"
  /\ UNCHANGED <<push, steps, selectedSteps, platform, dryRun, files, graph, results,
                 syncResult, backupResult, extracted, noInput, overrides, env,
                 variableDefs>>

\* promptForVariables returns collected
FinishCollect ==
  /\ pc = "collect"
  /\ cur > Len(variableDefs)
  /\ pc' = "collected"
  /\ UNCHANGED <<push, steps, selectedSteps, platform, dryRun, variables, files, graph,
                 cur, results, log, syncResult, backupResult, extracted, collection>>

\* the texts an override, an environment variable or an extracted value of
\* variable A may hold; none is the absence of the entry
SuppliedValues(text) == {"none", <<>>, text}

Supplied(name, value) == IF value = "none" THEN <<>> ELSE <<KV(name, value)>>

\* no --steps, or one step selected
CollectSelections == Selections(1)

\* the steps with every dependency list of at most MaxCollectEdges entries in
\* all, run without --steps or with one step selected, at the point where main has the
\* execution order; variable A is supplied in every way, variable B by the
\* environment or not at all
InitCollect ==
  /\ NoPush
  /\ \E d \in DepAssignments(MaxCollectEdges) :
       \E defaultA \in {<<>>, <<"d">>} :
         steps = [i \in 1..Len(DiscoveredIds) |->
                    IF DiscoveredIds[i] = "a"
                    THEN [DiscoveredStep("a", d[i]) EXCEPT
                            !.variables = <<KV(<<"A">>,
                                               Variable("string", "a", defaultA, TRUE))>>]
                    ELSE DiscoveredStep(DiscoveredIds[i], d[i])]
  /\ selectedSteps \in CollectSelections
  /\ graph = buildDependencyGraph(steps, selectedSteps)
  /\ ~graph.thrown
  /\ platform = "darwin"
  /\ dryRun = FALSE
  /\ noInput \in BOOLEAN
  /\ \E o \in SuppliedValues(<<"o">>) : overrides = Supplied(<<"A">>, o)
  /\ \E e \in SuppliedValues(<<"v">>) :
       \E eb \in {"none", <<"w">>} :
         env = Supplied(<<"B">>, eb) \o Supplied(<<"A">>, e)
  /\ \E x \in SuppliedValues(<<"x">>) : extracted = Supplied(<<"A">>, x)
  /\ variableDefs = <<>>
  /\ variables = <<>>
  /\ files = RunFiles
  /\ pc = "defs"
  /\ cur = 1
  /\ results = <<>>
  /\ log = <<>>
  /\ syncResult = [thrown |-> FALSE, warnings |-> <<>>]
  /\ backupResult = BackupResult("", FALSE, "")

NextCollect ==
  \/ CollectDefinitions
  \/ ResolveVariable
  \/ AnswerPrompt
  \/ FinishCollect

SpecCollect == InitCollect /\ [][NextCollect]_vars

(***************************************************************************)
(* Extraction of the variables' values from the local files of every step  *)
(* (core/extraction, extractVariablesFromExistingFiles).                   *)
(***************************************************************************)
\* the names findVariablesInTemplate finds in the text of a template, in
\* order of appearance
namesOfMatches(matches) == [i \in 1..Len(matches) |-> matches[i].name]

\* in the text of a JSON document the placeholders are those of its keys
\* and strings, in document order
RECURSIVE namesInJson(_), namesInEntries(_, _)
namesInJson(v) ==
  IF v.t = "str" THEN namesOfMatches(findVariablesInTemplate(v.s))
  ELSE IF IsObjectLike(v) THEN namesInEntries(v.o, 1)
  ELSE <<>>

namesInEntries(entries, i) ==
  IF i > Len(entries) THEN <<>>
  ELSE namesOfMatches(findVariablesInTemplate(entries[i].k))
         \o namesInJson(entries[i].v) \o namesInEntries(entries, i + 1)

varsInTemplate(templateContent) ==
  IF IsJsonText(templateContent) THEN namesInJson(templateContent.json)
  ELSE namesOfMatches(findVariablesInTemplate(templateContent.txt))

\* variableToFiles.get(varName): one entry per match of the name in a
\* readable template, steps in the order given, files in listed order
RECURSIVE fileInfosOfStep(_, _, _, _)
fileInfosOfStep(fs, step, varName, j) ==
  IF j > Len(step.files) THEN <<>>
  ELSE LET file == step.files[j]
           templatePath == TemplatePath(step.id, file.path)
           names == IF fileExists(fs, templatePath) THEN varsInTemplate(fs[templatePath])
                    ELSE <<>>
           hits == Cardinality({n \in 1..Len(names) : names[n] = varName})
       IN [n \in 1..hits |->
             [step |-> step.id, filePath |-> file.path, strategy |-> file.strategy,
              jqPath |-> file.jq_path]]
            \o fileInfosOfStep(fs, step, varName, j + 1)

RECURSIVE variableToFiles(_, _, _, _)
variableToFiles(fs, stepList, varName, i) ==
  IF i > Len(stepList) THEN <<>>
  ELSE (IF stepList[i].templateDir THEN fileInfosOfStep(fs, stepList[i], varName, 1)
        ELSE <<>>)
         \o variableToFiles(fs, stepList, varName, i + 1)

ExtractedValue(name, value, source, isSecret) ==
  [k |-> name, v |-> value, source |-> source, isSecret |-> isSecret]

\* the values extracted from one candidate file; thrown when JSON.parse
\* rejects the local file or the template of a jq-merge file
extractFromCandidate(fs, info) ==
  LET localContent == fs[TargetPath(info.filePath)]
      templateContent == fs[TemplatePath(info.step, info.filePath)]
  IN IF info.strategy = "jq-merge" /\ info.jqPath # <<>>
     THEN IF IsJsonText(localContent) /\ IsJsonText(templateContent)
          THEN [thrown |-> FALSE,
                values |-> extractValuesFromJson(templateContent.json, localContent.json,
                                                 info.jqPath)]
          ELSE [thrown |-> TRUE, values |-> <<>>]
     ELSE [thrown |-> FALSE,
           values |-> extractValuesFromText(templateContent.txt, localContent.txt)]

\* the loop over the candidates of one variable, up to the break: the
\* entry set for the variable, if any
RECURSIVE extractFromFileInfos(_, _, _, _, _)
extractFromFileInfos(fs, fileInfos, varName, variable, i) ==
  IF i > Len(fileInfos) THEN <<>>
  ELSE LET r == extractFromCandidate(fs, fileInfos[i])
       IN IF ~fileExists(fs, TargetPath(fileInfos[i].filePath)) \/ r.thrown
               \/ ~MapHasKey(r.values, varName)
          THEN extractFromFileInfos(fs, fileInfos, varName, variable, i + 1)
          ELSE <<ExtractedValue(varName, MapGetKey(r.values, varName),
                                TargetPath(fileInfos[i].filePath),
                                variable.type = "secret")>>

RECURSIVE extractEachVariable(_, _, _, _)
extractEachVariable(fs, stepList, defs, i) ==
  IF i > Len(defs) THEN <<>>
  ELSE extractFromFileInfos(fs, variableToFiles(fs, stepList, defs[i].k, 1), defs[i].k,
                            defs[i].v.variable, 1)
         \o extractEachVariable(fs, stepList, defs, i + 1)

extractVariablesFromExistingFiles(fs, stepList, defs) ==
  extractEachVariable(fs, stepList, defs, 1)

\* the call of extractVariablesFromExistingFiles over the discovered steps
ExtractExisting ==
  /\ pc = "extract"
  /\ extracted' = extractVariablesFromExistingFiles(files, steps, variableDefs)
  /\ pc' = "extractedAll"
  /\ UNCHANGED <<push, steps, selectedSteps, platform, dryRun, variables, files, graph, cur,
                 results, log, syncResult, backupResult, noInput, overrides, env,
                 variableDefs>>

\* a listed file with its template and the local file: replace files with
\* a text template, jq-merge files with a JSON template; the local file is
\* absent, one the template matches, or one it does not
ExtractCases ==
  {[strategy |-> "replace", jq_path |-> <<>>,
    template |-> TextFile(<<"k", "=">> \o Placeholder(<<"A">>)), local |-> l] :
     l \in {Absent, TextFile(<<"k", "=", "y">>), TextFile(<<"z">>)}}
  \cup
  {[strategy |-> "replace", jq_path |-> <<>>,
    template |-> TextFile(Placeholder(<<"B">>) \o <<"=">> \o Placeholder(<<"A">>)),
    local |-> l] :
     l \in {Absent, TextFile(<<"w", "=", "y">>)}}
  \cup
  {[strategy |-> "jq-merge", jq_path |-> <<".">>,
    template |-> JsonFile("pretty", JObj(<<KV(<<"t">>, JStr(Placeholder(<<"A">>)))>>)),
    local |-> l] :
     l \in {Absent, TextFile(<<"{">>),
            JsonFile("pretty", JObj(<<KV(<<"t">>, JStr(<<"w">>))>>)),
            JsonFile("pretty", JObj(<<KV(<<"t">>, JStr(<<>>))>>)),
            JsonFile("pretty", JObj(<<KV(<<"t">>, JNum(<<"0">>))>>))}}
  \cup
  {[strategy |-> "replace", jq_path |-> <<>>, template |-> TextFile(<<"x">>),
    local |-> TextFile(<<"x">>)],
   [strategy |-> "replace", jq_path |-> <<>>, template |-> Absent,
    local |-> TextFile(<<"k", "=", "y">>)]}

\* step a lists p and q, step b lists r
InitExtract ==
  /\ NoPush
  /\ \E cp, cq, cr \in ExtractCases :
       /\ steps =
            <<[DiscoveredStep("a", <<>>) EXCEPT
                 !.files = <<FileConfig("p", cp.strategy, cp.jq_path),
                             FileConfig("q", cq.strategy, cq.jq_path)>>],
              [DiscoveredStep("b", <<>>) EXCEPT
                 !.files = <<FileConfig("r", cr.strategy, cr.jq_path)>>]>>
       /\ files = [path \in AllPaths |->
                     IF path = TemplatePath("a", "p") THEN cp.template
                     ELSE IF path = TargetPath("p") THEN cp.local
                     ELSE IF path = TemplatePath("a", "q") THEN cq.template
                     ELSE IF path = TargetPath("q") THEN cq.local
                     ELSE IF path = TemplatePath("b", "r") THEN cr.template
                     ELSE IF path = TargetPath("r") THEN cr.local
                     ELSE Absent]
  /\ variableDefs = collectVariableDefinitions(steps, <<"a", "b">>)
  /\ selectedSteps = [defined |-> FALSE, ids |-> <<>>]
  /\ platform = "darwin"
  /\ dryRun = FALSE
  /\ noInput = FALSE
  /\ overrides = <<>>
  /\ env = <<>>
  /\ variables = <<>>
  /\ graph = NoGraph
  /\ pc = "extract"
  /\ cur = 1
  /\ results = <<>>
  /\ log = <<>>
  /\ syncResult = [thrown |-> FALSE, warnings |-> <<>>]
  /\ backupResult = BackupResult("", FALSE, "")
  /\ extracted = <<>>

NextExtract == ExtractExisting

SpecExtract == InitExtract /\ [][NextExtract]_vars

(***************************************************************************)
(* Repeated template sync of one file of one step: the sync of a run, and  *)
(* of the runs after it, over the files the run before has left.           *)
(***************************************************************************)
\* the values of the collected variables A and B: plain text, text that
\* holds a replacement pattern of String.prototype.replace, and text that
\* is itself a placeholder
SyncValues ==
  {<<>>, <<"x">>, <<"$", "$">>, <<"$", "&">>, Placeholder(<<"B">>), Placeholder(HOME)}

SyncTextTemplates ==
  {TextFile(Placeholder(<<"A">>)),
   TextFile(<<"x">> \o Placeholder(<<"A">>) \o Placeholder(<<"B">>)),
   TextFile(Placeholder(<<"B">>) \o <<"=">> \o Placeholder(<<"A">>)),
   TextFile(Placeholder(<<"C">>) \o Placeholder(<<"A">>)),
   TextFile(Placeholder(HOME) \o Placeholder(<<"A">>) \o Placeholder(USER))}

SyncJsonTemplates ==
  {JsonFile("pretty",
     JObj(<<KV(<<"t">>, JStr(Placeholder(<<"A">>))),
            KV(<<"m">>, JObj(<<KV(<<"s">>, JStr(Placeholder(<<"B">>)))>>))>>))}

\* the target before the first sync: none, text, or a JSON document
SyncTargets ==
  {Absent,
   TextFile(<<"o">>),
   JsonFile("compact", JObj(<<KV(<<"m">>, JObj(<<KV(<<"k">>, JStr(<<"v">>))>>))>>))}

SyncCases ==
  {[file |-> FileConfig("p", "replace", <<>>), template |-> t] :
     t \in SyncTextTemplates \cup SyncJsonTemplates}
    \cup {[file |-> FileConfig("p", "jq-merge", jq), template |-> t] :
            jq \in JqPaths, t \in SyncJsonTemplates}

\* one step with one file, its template and the target, before a sync
SyncState(file, template, target) ==
  /\ steps = <<[DiscoveredStep("a", <<>>) EXCEPT !.files = <<file>>]>>
  /\ files = [path \in AllPaths |->
                IF path = TemplatePath("a", file.path) THEN template
                ELSE IF path = TargetPath(file.path) THEN target
                ELSE Absent]
  /\ selectedSteps = [defined |-> FALSE, ids |-> <<>>]
  /\ platform = "darwin"
  /\ graph = NoGraph
  /\ pc = "sync"
  /\ cur = 1
  /\ results = <<>>
  /\ log = <<>>
  /\ syncResult = [thrown |-> FALSE, warnings |-> <<>>]
  /\ backupResult = BackupResult("", FALSE, "")
  /\ extracted = <<>>
  /\ NoCollection
  /\ NoPush

InitSync ==
  /\ \E c \in SyncCases :
       \E target \in SyncTargets : SyncState(c.file, c.template, target)
  /\ \E va, vb \in SyncValues : variables = <<KV(<<"A">>, va), KV(<<"B">>, vb)>>
  /\ dryRun \in BOOLEAN

\* executeStep, phase 2, of one run: syncTemplates of the step; cur counts
\* the runs
SyncStep ==
  /\ pc = "sync"
  /\ cur <= MaxSyncs
  /\ LET r == syncTemplates(files, steps[1].id, steps[1].files, dryRun, variables)
     IN /\ files' = r.files
        /\ syncResult' = [thrown |-> r.thrown, warnings |-> r.warnings]
  /\ cur' = cur + 1
  /\ UNCHANGED <<push, collection, steps, selectedSteps, platform, dryRun, variables, graph,
                 pc, results, log, backupResult, extracted>>

NextSync == SyncStep

SpecSync == InitSync /\ [][NextSync]_vars

(***************************************************************************)
(* Repeated jq-merge of a JSON document into a target, without             *)
(* placeholders: every source and target document over the keys m and k.   *)
(***************************************************************************)
\* the values of a field that are not objects with fields
MergeLeaves ==
  {JStr(<<"x">>), JNum(<<"0">>), JNull, JArr(<<KV(<<"0">>, JStr(<<"x">>))>>),
   JObj(<<>>)}

\* the values of a field: a leaf or an object with the field k
MergeFields ==
  MergeLeaves \cup {JObj(<<KV(<<"k">>, leaf)>>) : leaf \in MergeLeaves}

\* the documents: objects with the fields m and k, each present or not
MergeDocuments ==
  {JObj(<<>>)}
    \cup {JObj(<<KV(key, f)>>) : key \in {<<"m">>, <<"k">>}, f \in MergeFields}
    \cup {JObj(<<KV(<<"m">>, f)>>  \o <<KV(<<"k">>, leaf)>>) :
            f \in MergeFields, leaf \in MergeLeaves}

MergePaths == {<<".">>, <<".", "m">>, <<".", "m", ".", "k">>}

InitMerge ==
  /\ \E jq \in MergePaths :
       \E source \in MergeDocuments :
         \E target \in {Absent, TextFile(<<"{">>)}
                         \cup {JsonFile("compact", d) : d \in MergeDocuments} :
           SyncState(FileConfig("p", "jq-merge", jq), JsonFile("pretty", source), target)
  /\ variables = <<>>
  /\ dryRun = FALSE

SpecMerge == InitMerge /\ [][NextSync]_vars

(***************************************************************************)
(* Template sync of a step that lists several files, some of them without  *)
(* a readable template or, for jq-merge, without a jq_path.                *)
(***************************************************************************)
\* the i-th listed file is at the i-th path
ListedPaths == <<"p", "q", "r">>

SkipStrategies ==
  {[strategy |-> "replace", jq_path |-> <<>>],
   [strategy |-> "jq-merge", jq_path |-> <<>>],
   [strategy |-> "jq-merge", jq_path |-> <<".", "m">>]}

\* the template of a listed file: none, text, or a JSON document
SkipTemplates ==
  {Absent,
   TextFile(<<"k", "=">> \o Placeholder(<<"A">>)),
   JsonFile("pretty", JObj(<<KV(<<"t">>, JStr(Placeholder(<<"A">>)))>>))}

SkipTargets ==
  {Absent, JsonFile("compact", JObj(<<KV(<<"m">>, JObj(<<KV(<<"k">>, JStr(<<"v">>))>>))>>))}

InitSkip ==
  /\ \E n \in 1..MaxFiles :
       \E strategies \in [1..n -> SkipStrategies] :
         \E templates \in [1..n -> SkipTemplates] :
           \E targets \in [1..n -> SkipTargets] :
             /\ steps = <<[DiscoveredStep("a", <<>>) EXCEPT !.files =
                            [i \in 1..n |-> FileConfig(ListedPaths[i], strategies[i].strategy,
                                                       strategies[i].jq_path)]]>>
             /\ files = [path \in AllPaths |->
                           IF \E i \in 1..n : path = TemplatePath("a", ListedPaths[i])
                           THEN templates[CHOOSE i \in 1..n :
                                            path = TemplatePath("a", ListedPaths[i])]
                           ELSE IF \E i \in 1..n : path = TargetPath(ListedPaths[i])
                           THEN targets[CHOOSE i \in 1..n : path = TargetPath(ListedPaths[i])]
                           ELSE Absent]
  /\ selectedSteps = [defined |-> FALSE, ids |-> <<>>]
  /\ platform = "darwin"
  /\ dryRun \in BOOLEAN
  /\ variables = RunVariables
  /\ graph = NoGraph
  /\ pc = "sync"
  /\ cur = 1
  /\ results = <<>>
  /\ log = <<>>
  /\ syncResult = [thrown |-> FALSE, warnings |-> <<>>]
  /\ backupResult = BackupResult("", FALSE, "")
  /\ extracted = <<>>
  /\ NoCollection
  /\ NoPush

SpecSkip == InitSkip /\ [][NextSync]_vars

(***************************************************************************)
(* The dependency relation of the discovered steps, stated without the     *)
(* traversal.                                                              *)
(***************************************************************************)
Discovered == {steps[i].id : i \in 1..Len(steps)}

DeclaredDeps(id) ==
  IF MapHas(steps, id) THEN SeqToSet(MapGet(steps, id).dependencies) ELSE {}

RECURSIVE ReachedFrom(_, _)
ReachedFrom(S, n) ==
  LET S2 == S \cup UNION {DeclaredDeps(x) : x \in S}
  IN IF n = 0 \/ S2 = S THEN S ELSE ReachedFrom(S2, n - 1)

\* the ids id depends on, directly or transitively
DependsOn(id) == ReachedFrom(DeclaredDeps(id), Cardinality(AllIds))

OnCycle(id) == id \in DependsOn(id)

HasCycle == \E id \in Discovered : OnCycle(id)

\* the ids reachable from the selection through declared dependencies
ReachableFromSelection == UNION {DependsOn(id) : id \in SeqToSet(selectedSteps.ids)}

\* the steps the traversal is to process
ToProcess ==
  IF selectedSteps.defined
  THEN (SeqToSet(selectedSteps.ids) \cup ReachableFromSelection) \cap Discovered
  ELSE Discovered

GraphBuilt == pc # "start"

Before(x, y, order) ==
  \E i, j \in 1..Len(order) : i < j /\ order[i] = x /\ order[j] = y

(***************************************************************************)
(* C1: for an acyclic set of discovered steps, with or without a           *)
(* selection, every id of the returned order comes after each of its       *)
(* declared dependencies that is a discovered step.                        *)
(***************************************************************************)
C1_TopologicalOrder ==
  (GraphBuilt /\ ~HasCycle /\ ~graph.thrown) =>
    \A i \in 1..Len(graph.order) :
      \A dep \in DeclaredDeps(graph.order[i]) \cap Discovered :
        Before(dep, graph.order[i], graph.order)

\* a selection whose order holds all three steps, two of them pulled in as
\* dependencies and listed by the discovery after their dependent
C1_Witness ==
  /\ GraphBuilt /\ ~HasCycle /\ ~graph.thrown
  /\ selectedSteps.defined
  /\ graph.order = <<"c", "b", "a">>
  /\ Len(graph.autoIncluded) = 2

(***************************************************************************)
(* C2 as first stated: whenever some discovered step depends on itself, the      *)
(* build fails naming a step of a cycle and nothing is executed.           *)
(***************************************************************************)
C2_AnyCycleIsFatal ==
  (GraphBuilt /\ HasCycle) =>
    /\ pc = "fatal"
    /\ graph.thrown
    /\ OnCycle(graph.errId)
    /\ log = <<>>
    /\ results = <<>>

(***************************************************************************)
(* C2, amended: whenever a step the traversal is to process (every         *)
(* discovered step without a selection, else the selected steps and their  *)
(* transitive dependencies) depends on itself, the build fails naming a    *)
(* step that is on a cycle, and no script runs and no template is synced.  *)
(***************************************************************************)
C2_CycleInScopeIsFatal ==
  (GraphBuilt /\ \E id \in ToProcess : OnCycle(id)) =>
    /\ pc = "fatal"
    /\ graph.thrown
    /\ graph.errId \in Discovered
    /\ OnCycle(graph.errId)
    /\ log = <<>>
    /\ results = <<>>
    /\ files = RunFiles

\* a cycle reached only through the dependencies of the selected step
C2_Witness ==
  /\ pc = "fatal"
  /\ selectedSteps.defined
  /\ ~OnCycle(selectedSteps.ids[1])
  /\ selectedSteps.ids[1] \in Discovered

(***************************************************************************)
(* C3: with a selection, order holds exactly, each once, the selected ids  *)
(* and every id reachable from them through declared dependencies, and     *)
(* autoIncluded is exactly the reachable ids that were not selected.       *)
(***************************************************************************)
C3_OrderIsSelectionClosure ==
  (GraphBuilt /\ ~graph.thrown /\ selectedSteps.defined) =>
    /\ NoDup(graph.order)
    /\ SeqToSet(graph.order) = SeqToSet(selectedSteps.ids) \cup ReachableFromSelection
    /\ NoDup(graph.autoIncluded)
    /\ SeqToSet(graph.autoIncluded) = ReachableFromSelection \ SeqToSet(selectedSteps.ids)

(***************************************************************************)
(* C4: a dependency that names no discovered step changes nothing: the     *)
(* graph is the one built from the same steps without that dependency.     *)
(***************************************************************************)
NotGhost(id) == id \in {"a", "b", "c"}

WithoutUndiscovered ==
  [i \in 1..Len(steps) |->
     [steps[i] EXCEPT !.dependencies = SelectSeq(@, NotGhost)]]

C4_UndiscoveredDependencyIsAbsentEdge ==
  GraphBuilt => graph = buildDependencyGraph(WithoutUndiscovered, selectedSteps)

(***************************************************************************)
(* C5: the results are those of a prefix of order, one per id and in       *)
(* order; a failure is the last result and ends the run; what a completed  *)
(* step wrote stays as written.                                            *)
(***************************************************************************)
Completed(id) ==
  \E i \in 1..Len(results) :
    results[i].step = id /\ results[i].success /\ ~results[i].skipped

WrittenBy(id) ==
  syncTemplates(RunFiles, id, StepCatalog[id].files, FALSE, RunVariables).files

C5_StopAtFirstFailure ==
  /\ Len(results) <= Len(graph.order)
  /\ \A i \in 1..Len(results) : results[i].step = graph.order[i]
  /\ \A i \in 1..Len(results) :
       IsFailure(results[i]) => (i = Len(results) /\ pc = "done")
  /\ \A i \in 1..Len(log) :
       \E j \in 1..Len(graph.order) :
         /\ graph.order[j] = log[i][2]
         /\ j <= Len(results) + 1
         /\ (pc = "done" \/ pc = "exec") => j <= Len(results)
  /\ \A id \in Discovered :
       (Completed(id) /\ ~dryRun) =>
         \A f \in FilePaths :
           (\E k \in 1..Len(StepCatalog[id].files) : StepCatalog[id].files[k].path = f)
             => /\ fileExists(files, TargetPath(f))
                /\ files[TargetPath(f)] = WrittenBy(id)[TargetPath(f)]

\* two steps completed and wrote their files, the third failed
C5_Witness ==
  /\ pc = "done"
  /\ ~dryRun
  /\ Len(results) = 3
  /\ IsFailure(results[3])
  /\ Completed("b")
  /\ fileExists(files, TargetPath("q"))

(***************************************************************************)
(* C6: with dryRun set, a template sync creates or modifies no file: no    *)
(* target, no .bak backup, no temporary file.                              *)
(***************************************************************************)
C6_DryRunSyncWritesNothing ==
  [][(dryRun /\ pc = "sync") => files' = files]_vars

(***************************************************************************)
(* The file under extraction and backup, its template and its local file.  *)
(***************************************************************************)
TheFile == steps[1].files[1]

TheTemplate == files[TemplatePath(steps[1].id, TheFile.path)]

TheLocal == files[TargetPath(TheFile.path)]

IsBuiltin(name) == name = HOME \/ name = USER

\* the local file is the template with the values substituted
Materialized == TheLocal = substituteVariables(TheTemplate, variables)

CharsOf(str) == {str[i] : i \in 1..Len(str)}

NamesIn(str) ==
  LET found == findVariablesInTemplate(str)
  IN {found[i].name : i \in 1..Len(found)}

\* every string of a JSON value, wherever it lies
RECURSIVE StringsOf(_)
StringsOf(v) ==
  IF v.t = "str" THEN {v.s}
  ELSE IF IsObjectLike(v) THEN UNION {StringsOf(v.o[i].v) : i \in 1..Len(v.o)}
  ELSE {}

\* the strings that are the value of a field of v or of an object nested in
\* v through object fields only
RECURSIVE FieldStrings(_)
FieldStrings(v) ==
  IF ~IsPlainObject(v) THEN {}
  ELSE UNION {IF v.o[i].v.t = "str" THEN {v.o[i].v.s} ELSE FieldStrings(v.o[i].v) :
                i \in 1..Len(v.o)}

\* the placeholders of the template that are not built-ins
TemplateVariables ==
  IF IsJsonText(TheTemplate)
  THEN {n \in UNION {NamesIn(str) : str \in StringsOf(TheTemplate.json)} : ~IsBuiltin(n)}
  ELSE {n \in NamesIn(TheTemplate.txt) : ~IsBuiltin(n)}

\* the assignment, restricted to the placeholders of the template
Assignment == {KV(n, MapGetKey(variables, n)) : n \in TemplateVariables}

LiteralParts == buildExtractionRegex(substituteBuiltins(TheTemplate.txt)).lits

TextUnambiguous ==
  /\ \A kv \in Assignment : kv.v # <<>>
  /\ \A i \in 2..(Len(LiteralParts) - 1) : LiteralParts[i] # <<>>
  /\ \A kv \in Assignment :
       \A i \in 1..Len(LiteralParts) : CharsOf(kv.v) \cap CharsOf(LiteralParts[i]) = {}

JsonUnambiguous ==
  LET subset == getValueAtPath(TheTemplate.json, TheFile.jq_path)
  IN /\ IsPlainObject(subset)
     /\ \A str \in StringsOf(TheTemplate.json) :
          NamesIn(str) # {} =>
            /\ \E n \in NamesIn(str) : str = Placeholder(n) /\ ~IsBuiltin(n)
            /\ str \in FieldStrings(subset)
     /\ \A str \in StringsOf(TheTemplate.json) \ FieldStrings(subset) : NamesIn(str) = {}

TemplateWithBuiltins == substituteVariables(TheTemplate, <<>>)

(***************************************************************************)
(* C8: for either strategy, when backupFile discovers no placeholder       *)
(* values and the local content differs from the template with built-ins   *)
(* substituted, it returns a structural-mismatch error with changed=false  *)
(* and does not write the template.                                        *)
(***************************************************************************)
C8_BackupConservatism ==
  [][(/\ pc = "extracted" /\ pc' = "backed"
      /\ extracted = <<>>
      /\ TheLocal # TemplateWithBuiltins)
       => /\ backupResult'.error = "Structure mismatch - cannot extract variables"
          /\ ~backupResult'.changed
          /\ files' = files]_vars

(***************************************************************************)
(* C9: the backup of a freshly materialized file is a no-op: changed is    *)
(* false and the template file is not written, built-ins in the template   *)
(* or not.                                                                 *)
(***************************************************************************)
C9_FreshBackupIsNoOp ==
  [][(pc = "extracted" /\ pc' = "backed" /\ Materialized)
       => (~backupResult'.changed /\ files' = files)]_vars

\* every string equal to an extracted value replaced by the placeholder of
\* the (first) variable that has that value
RECURSIVE WithPlaceholders(_, _)
WithPlaceholders(v, values) ==
  IF v.t = "str"
  THEN (IF \E i \in 1..Len(values) : values[i].v = v.s
        THEN JStr(Placeholder(values[CHOOSE i \in 1..Len(values) :
                                       /\ values[i].v = v.s
                                       /\ \A j \in 1..(i - 1) : values[j].v # v.s].k))
        ELSE v)
  ELSE IF IsObjectLike(v)
  THEN [v EXCEPT !.o = [i \in 1..Len(v.o) |->
                          KV(v.o[i].k, WithPlaceholders(v.o[i].v, values))]]
  ELSE v

\* the template with its subtree at jq_path replaced
ExpectedTemplate ==
  LET parts == pathParts(TheFile.jq_path)
      subtree == WithPlaceholders(getValueAtPath(TheLocal.json, TheFile.jq_path), extracted)
  IN IF parts = <<>> THEN subtree
     ELSE PutKey(TheTemplate.json, parts[1], subtree)

(***************************************************************************)
(* C10: when backupFile finds values for a jq-merge file, the new template *)
(* is the existing template with its subtree at jq_path replaced by the    *)
(* local subtree at jq_path with every extracted value turned into its     *)
(* placeholder, for every jq_path, the root path "." included.             *)
(***************************************************************************)
C10_JqMergeBackupTemplate ==
  [][(/\ pc = "extracted" /\ pc' = "backed"
      /\ TheFile.strategy = "jq-merge"
      /\ extracted # <<>>
      /\ ~dryRun)
       => /\ backupResult'.error = ""
          /\ files'[TemplatePath(steps[1].id, TheFile.path)].json = ExpectedTemplate]_vars

\* the text in which every intact placeholder of a variable of values
\* stands for its value, read in one pass from the left
RECURSIVE Expand(_, _, _)
Expand(str, values, i) ==
  IF i > Len(str) THEN <<>>
  ELSE LET e == PlaceholderAt(str, i)
       IN IF e # 0 /\ MapHasKey(values, SubSeq(str, i + 2, e - 2))
          THEN MapGetKey(values, SubSeq(str, i + 2, e - 2)) \o Expand(str, values, e)
          ELSE <<str[i]>> \o Expand(str, values, i + 1)

\* the text outside the intact placeholders of the variables of values, each
\* placeholder leaving a gap
RECURSIVE LiteralRest(_, _, _)
LiteralRest(str, values, i) ==
  IF i > Len(str) THEN <<>>
  ELSE LET e == PlaceholderAt(str, i)
       IN IF e # 0 /\ MapHasKey(values, SubSeq(str, i + 2, e - 2))
          THEN <<"">> \o LiteralRest(str, values, e)
          ELSE <<str[i]>> \o LiteralRest(str, values, i + 1)

Occurs(pat, str) == \E i \in 1..Len(str) : LitAt(str, i, pat)

(***************************************************************************)
(* C11: when one extracted value is a substring of another, in the         *)
(* template that a backup of a replace-strategy file builds from the local *)
(* text every occurrence of an extracted value has become                  *)
(* that variable's own intact placeholder: putting the values back for the *)
(* placeholders gives the local text again, and no value is left over      *)
(* outside the placeholders.                                               *)
(***************************************************************************)
C11_PlaceholdersIntact ==
  (/\ pc = "backed" /\ TheFile.strategy = "replace"
   /\ \E i, j \in 1..Len(extracted) :
        i # j /\ extracted[i].v # <<>> /\ Occurs(extracted[i].v, extracted[j].v)) =>
    /\ backupResult.error = ""
    /\ Expand(TheTemplate.txt, extracted, 1) = TheLocal.txt
    /\ \A i \in 1..Len(extracted) :
         extracted[i].v # <<>> =>
           ~Occurs(extracted[i].v, LiteralRest(TheTemplate.txt, extracted, 1))

(***************************************************************************)
(* The file that the copy loop of a push is at, its template and its local *)
(* file.                                                                   *)
(***************************************************************************)
PushedConfig == discoverFileConfigs(steps, 1)[cur]

PushedTemplatePath == TemplatePath(PushedConfig.stepDir, PushedConfig.fileConfig.path)

PushedLocalPath == TargetPath(PushedConfig.fileConfig.path)

\* the copy loop copies a local file over an existing template
CopiesOverTemplate ==
  /\ pc = "copy"
  /\ cur <= Len(discoverFileConfigs(steps, 1))
  /\ cur' = cur + 1
  /\ ~dryRun
  /\ isFile(files, PushedLocalPath)
  /\ isFile(files, PushedTemplatePath)

\* every node of a JSON value: its path, its type and its text
RECURSIVE NodesOf(_, _)
NodesOf(v, path) ==
  {[path |-> path, t |-> v.t, s |-> v.s]}
    \cup (IF IsObjectLike(v)
          THEN UNION {NodesOf(v.o[i].v, Append(path, v.o[i].k)) : i \in 1..Len(v.o)}
          ELSE {})

\* the strings of a JSON value that hold a placeholder, with their paths
PlaceholderNodes(v) == {n \in NodesOf(v, <<>>) : n.t = "str" /\ NamesIn(n.s) # {}}

\* the text pat occurs in the content, as text or inside a string of the
\* JSON document
ContentHolds(content, pat) ==
  IF IsJsonText(content)
  THEN \E str \in StringsOf(content.json) : Occurs(pat, str)
  ELSE Occurs(pat, content.txt)

(***************************************************************************)
(* C12: a template that a push writes over an existing template holds      *)
(* every placeholder of the previous template where it was: in a JSON      *)
(* document the placeholder-bearing string at each path at which the local *)
(* document has a value, in plain text each ${NAME} of the previous text.  *)
(***************************************************************************)
C12_PushKeepsPlaceholders ==
  [][CopiesOverTemplate =>
       LET old == files[PushedTemplatePath]
           new == files'[PushedTemplatePath]
           local == files[PushedLocalPath]
       IN IF IsJsonText(old) /\ IsJsonText(local)
          THEN /\ IsJsonText(new)
               /\ \A n \in PlaceholderNodes(old.json) :
                    getAtPath(local.json, n.path).t # "undefined" =>
                      getAtPath(new.json, n.path) = JStr(n.s)
          ELSE \A name \in (IF IsJsonText(old)
                            THEN UNION {NamesIn(str) : str \in StringsOf(old.json)}
                            ELSE NamesIn(old.txt)) :
                 ContentHolds(new, Placeholder(name))]_vars

\* the paths that sanitizeWithTemplate is to restore: the template holds a
\* placeholder-bearing string there and the local document another string
RestoredPaths ==
  {n.path : n \in {m \in PlaceholderNodes(files[PushedTemplatePath].json) :
                     LET l == getAtPath(files[PushedLocalPath].json, m.path)
                     IN l.t = "str" /\ l.s # m.s}}

\* the entries that the copy of this file adds to the replacements shown
AddedReplacements ==
  IF Len(log') > Len(log) THEN SubSeq(log', Len(log) + 2, Len(log')) ELSE <<>>

(***************************************************************************)
(* C13: for a JSON template and a JSON local file, the sanitized document  *)
(* is the local document with the template's string at exactly the paths   *)
(* where the template holds a placeholder-bearing string and the local     *)
(* document a different string; no other node of the local document        *)
(* changes, none is added, and replacements has one entry per such path.   *)
(***************************************************************************)
C13_SanitizeRestoresExactly ==
  [][(/\ CopiesOverTemplate
      /\ IsJsonText(files[PushedTemplatePath])
      /\ IsJsonText(files[PushedLocalPath])) =>
       LET template == files[PushedTemplatePath].json
           local == files[PushedLocalPath].json
           new == files'[PushedTemplatePath]
       IN /\ IsJsonText(new)
          /\ NodesOf(new.json, <<>>) =
               {n \in NodesOf(local, <<>>) : n.path \notin RestoredPaths}
                 \cup {[path |-> p, t |-> "str", s |-> getAtPath(template, p).s] :
                         p \in RestoredPaths}
          /\ Len(AddedReplacements) = Cardinality(RestoredPaths)
          /\ {AddedReplacements[i].path : i \in 1..Len(AddedReplacements)}
               = RestoredPaths]_vars

(***************************************************************************)
(* Variable collection, stated over the steps and the execution order.     *)
(***************************************************************************)
DefinitionsCollected == pc \in {"collect", "prompt", "collected"}

Declares(id, name) == MapHas(steps, id) /\ MapHasKey(MapGet(steps, id).variables, name)

\* the steps of the execution order that declare name, in execution order
DeclaringSteps(name) ==
  LET declares(id) == Declares(id, name)
  IN SelectSeq(graph.order, declares)

DeclaredNames ==
  {name \in {<<"A">>, <<"B">>} : DeclaringSteps(name) # <<>>}

(***************************************************************************)
(* C15: collectVariableDefinitions has exactly the names declared by steps *)
(* of the execution order; each with the definition of the first step of   *)
(* the order that declares it and with usedBy the steps of the order that  *)
(* declare it, in execution order.                                         *)
(***************************************************************************)
C15_FirstDefinitionWins ==
  DefinitionsCollected =>
    /\ {variableDefs[i].k : i \in 1..Len(variableDefs)} = DeclaredNames
    /\ NoDup([i \in 1..Len(variableDefs) |-> variableDefs[i].k])
    /\ \A name \in DeclaredNames :
         /\ MapGetKey(variableDefs, name).usedBy = DeclaringSteps(name)
         /\ MapGetKey(variableDefs, name).variable =
              MapGetKey(MapGet(steps, Head(DeclaringSteps(name))).variables, name)

\* A is declared by b and then by a, with different definitions, and c is
\* not in the order
C15_Witness ==
  /\ DefinitionsCollected
  /\ graph.order = <<"b", "a">>
  /\ MapGetKey(variableDefs, <<"A">>).usedBy = <<"b", "a">>
  /\ MapGetKey(variableDefs, <<"A">>).variable.description = "b"
  /\ MapGetKey(variableDefs, <<"B">>).usedBy = <<"b">>

\* the value collected for a variable
CollectedValue(state, name) == MapGetKey(state, name)

\* the value that the sources decide without a prompt: override, then
\* environment, then in no-input mode the extracted value, then the default
Unprompted(name) ==
  IF Lookup(overrides, name) # <<>> THEN Lookup(overrides, name)
  ELSE IF Lookup(env, name) # <<>> THEN Lookup(env, name)
  ELSE IF MapHasKey(extracted, name) THEN MapGetKey(extracted, name)
  ELSE MapGetKey(variableDefs, name).variable.default

NeedsPrompt(name) ==
  ~noInput /\ Lookup(overrides, name) = <<>> /\ Lookup(env, name) = <<>>

Blank(str) == \A i \in 1..Len(str) : str[i] = " "

\* str without the blanks around it
Unpadded(str) ==
  LET inside == {i \in 1..Len(str) : str[i] # " "}
  IN IF inside = {} THEN <<>>
     ELSE SubSeq(str, CHOOSE i \in inside : \A j \in inside : i <= j,
                 CHOOSE i \in inside : \A j \in inside : i >= j)

(***************************************************************************)
(* C14: every collected value comes from the first source that applies:    *)
(* the override, the environment variable, the extracted value (taken      *)
(* outright in no-input mode, the pre-fill of the prompt otherwise), the    *)
(* answer typed at the prompt (a blank answer keeps the pre-fill: the       *)
(* extracted value, else the default), the default, else the empty text.   *)
(***************************************************************************)
C14_ResolutionPrecedence ==
  [][/\ \A i \in 1..Len(variables') :
          ~NeedsPrompt(variables'[i].k) =>
            variables'[i].v = Unprompted(variables'[i].k)
     /\ (pc = "prompt" /\ pc' = "collect") =>
          LET name == variableDefs[cur].k
              answer == log'[Len(log')].answer
          IN /\ NeedsPrompt(name)
             /\ CollectedValue(variables', name) =
                  IF Blank(answer) THEN Unprompted(name) ELSE Unpadded(answer)]_vars

\* every source holds a value for A and the override is the one collected;
\* B, without override and environment variable, was answered at the prompt
C14_Witness ==
  /\ pc = "collected"
  /\ Lookup(overrides, <<"A">>) = <<"o">>
  /\ Lookup(env, <<"A">>) = <<"v">>
  /\ MapHasKey(extracted, <<"A">>)
  /\ MapHasKey(variables, <<"A">>)
  /\ CollectedValue(variables, <<"A">>) = <<"o">>
  /\ MapHasKey(variables, <<"B">>)
  /\ CollectedValue(variables, <<"B">>) = <<"y">>

\* a required variable that no source gives a value
Unprovided(name) ==
  /\ MapGetKey(variableDefs, name).variable.required
  /\ Lookup(overrides, name) = <<>>
  /\ Lookup(env, name) = <<>>
  /\ ~MapHasKey(extracted, name)
  /\ MapGetKey(variableDefs, name).variable.default = <<>>

(***************************************************************************)
(* C16: in no-input mode variable collection never waits at a prompt;      *)
(* when it has ended every variable has a value, and a required variable   *)
(* that no source provides has the empty text and a warning.               *)
(***************************************************************************)
C16_NoInputNeverPrompts ==
  noInput =>
    /\ pc # "prompt"
    /\ \A i \in 1..Len(log) : "answer" \notin DOMAIN log[i]
    /\ pc = "collected" =>
         /\ Len(variables) = Len(variableDefs)
         /\ \A i \in 1..Len(variableDefs) :
              LET name == variableDefs[i].k
              IN /\ variables[i].k = name
                 /\ Unprovided(name) =>
                      /\ variables[i].v = <<>>
                      /\ InSeq([warning |-> name], log)

\* collection has ended in no-input mode with a warning for B and a value
\* for a variable collected after it
C16_Witness ==
  /\ noInput
  /\ pc = "collected"
  /\ Len(variableDefs) = 2
  /\ variableDefs[1].k = <<"B">>
  /\ InSeq([warning |-> <<"B">>], log)
  /\ variables[1].v = <<>>
  /\ variables[2].v # <<>>

(***************************************************************************)
(* Template sync, stated over the file synced, its template and its target.*)
(***************************************************************************)
SyncRuns == pc = "sync" /\ cur' = cur + 1

\* the text with every pat replaced by ins as it stands
RECURSIVE Replaced(_, _, _)
Replaced(str, pat, ins) ==
  IF str = <<>> THEN <<>>
  ELSE IF LitAt(str, 1, pat) THEN ins \o Replaced(SubSeq(str, Len(pat) + 1, Len(str)), pat, ins)
  ELSE <<Head(str)>> \o Replaced(Tail(str), pat, ins)

\* the placeholders of the collected variables i.. replaced by their values,
\* one variable after the other
RECURSIVE RenderedCollected(_, _)
RenderedCollected(str, i) ==
  IF i > Len(variables) THEN str
  ELSE RenderedCollected(Replaced(str, Placeholder(variables[i].k), variables[i].v), i + 1)

Rendered(str) ==
  Replaced(Replaced(RenderedCollected(str, 1), Placeholder(HOME), HomeDir),
           Placeholder(USER), UserName)

(***************************************************************************)
(* C17: the text that a sync renders from a text template is the template  *)
(* with every ${NAME} of each collected variable replaced by the           *)
(* variable's value, then ${HOME} and ${USER} by the built-ins, and every  *)
(* other placeholder as written.                                           *)
(***************************************************************************)
C17_SubstitutesEveryPlaceholder ==
  [][(SyncRuns /\ TheFile.strategy = "replace" /\ ~IsJsonText(TheTemplate)) =>
       files'[TmpPath(TheFile.path)] = TextFile(Rendered(TheTemplate.txt))]_vars

(***************************************************************************)
(* C18: a sync of a replace-strategy file without --dry-run leaves the     *)
(* rendered template in the target and, if the target was a file, the      *)
(* target's content of just before in <target>.bak; the next sync puts     *)
(* the content the first wrote into <target>.bak.                          *)
(***************************************************************************)
C18_ReplaceKeepsOneBackup ==
  [][(SyncRuns /\ ~dryRun /\ TheFile.strategy = "replace") =>
       /\ files'[TargetPath(TheFile.path)] = substituteVariables(TheTemplate, variables)
       /\ files'[BackupPath(TheFile.path)] =
            IF fileExists(files, TargetPath(TheFile.path))
            THEN files[TargetPath(TheFile.path)]
            ELSE files[BackupPath(TheFile.path)]]_vars

\* after two syncs the backup is what the first sync wrote
C18_Witness ==
  /\ pc = "sync"
  /\ cur = 3
  /\ ~dryRun
  /\ TheFile.strategy = "replace"
  /\ TheLocal = substituteVariables(TheTemplate, variables)
  /\ files[BackupPath(TheFile.path)] = TheLocal
  /\ TheLocal # TextFile(<<"o">>)

KeySet(v) == {v.o[i].k : i \in 1..Len(v.o)}

\* w is the merge of s into t as the claim describes it
RECURSIVE IsMergeOf(_, _, _)
IsMergeOf(w, t, s) ==
  /\ IsPlainObject(w)
  /\ KeySet(w) = KeySet(t) \cup KeySet(s)
  /\ \A key \in KeySet(w) :
       IF key \notin KeySet(s) THEN GetKey(w, key) = GetKey(t, key)
       ELSE IF IsPlainObject(GetKey(s, key)) /\ IsPlainObject(GetKey(t, key))
         THEN IsMergeOf(GetKey(w, key), GetKey(t, key), GetKey(s, key))
       ELSE GetKey(w, key) = GetKey(s, key)

\* a jq-merge at the root of a target that is a JSON document
MergesAtRoot ==
  /\ SyncRuns
  /\ TheFile.strategy = "jq-merge"
  /\ pathParts(TheFile.jq_path) = <<>>
  /\ IsJsonText(TheLocal)

(***************************************************************************)
(* C19: deepMerge(target, source) has the keys of both; a key of the       *)
(* target alone keeps its value; a key of the source has the recursive     *)
(* merge when both values are objects that are not arrays, and the         *)
(* source's value otherwise.                                               *)
(***************************************************************************)
C19_DeepMergeSemantics ==
  [][MergesAtRoot =>
       /\ IsMergeOf(deepMerge(TheLocal.json, TheTemplate.json),
                    TheLocal.json, TheTemplate.json)
       /\ files'[TargetPath(TheFile.path)].json =
            deepMerge(TheLocal.json, TheTemplate.json)]_vars

\* the target {m: {k: "x"}, k: "x"} merged with the source {m: {k: ["x"]}}:
\* k kept, m merged key by key, the array in place of the text
C19_Witness ==
  /\ pc = "sync"
  /\ cur = 2
  /\ pathParts(TheFile.jq_path) = <<>>
  /\ TheTemplate.json =
       JObj(<<KV(<<"m">>, JObj(<<KV(<<"k">>, JArr(<<KV(<<"0">>, JStr(<<"x">>))>>))>>))>>)
  /\ files[BackupPath(TheFile.path)].json =
       JObj(<<KV(<<"m">>, JObj(<<KV(<<"k">>, JStr(<<"x">>))>>)), KV(<<"k">>, JStr(<<"x">>))>>)
  /\ TheLocal.json =
       JObj(<<KV(<<"m">>, JObj(<<KV(<<"k">>, JArr(<<KV(<<"0">>, JStr(<<"x">>))>>))>>)),
              KV(<<"k">>, JStr(<<"x">>))>>)

(***************************************************************************)
(* C20: merging the same source a second time changes nothing:             *)
(* deepMerge(deepMerge(t, s), s) = deepMerge(t, s), and a jq-merge after   *)
(* a jq-merge of the same source at the same jq_path leaves the target     *)
(* document as it is.                                                      *)
(***************************************************************************)
C20_MergeIdempotent ==
  [][(SyncRuns /\ TheFile.strategy = "jq-merge" /\ ~dryRun) =>
       /\ IsJsonText(TheLocal) =>
            deepMerge(deepMerge(TheLocal.json, TheTemplate.json), TheTemplate.json)
              = deepMerge(TheLocal.json, TheTemplate.json)
       /\ cur >= 2 => files'[TargetPath(TheFile.path)] = TheLocal]_vars

\* two merges at .m done, and the first changed the target
C20_Witness ==
  /\ pc = "sync"
  /\ cur = 3
  /\ TheFile.jq_path = <<".", "m">>
  /\ files[BackupPath(TheFile.path)] = TheLocal
  /\ TheLocal.json # TheTemplate.json
  /\ IsPlainObject(GetKey(TheLocal.json, <<"m">>))
  /\ GetKey(TheLocal.json, <<"k">>) = JStr(<<"x">>)
  /\ KeySet(GetKey(TheLocal.json, <<"m">>)) = {<<"m">>, <<"k">>}

(***************************************************************************)
(* jq-merge of a file whose target is absent or is not a JSON document.    *)
(***************************************************************************)
\* a sync of the jq-merge file that is not a dry run
MergeRuns == SyncRuns /\ ~dryRun /\ TheFile.strategy = "jq-merge" /\ TheFile.jq_path # <<>>

\* the target is a file whose content JSON.parse rejects
CorruptTarget == fileExists(files, TargetPath(TheFile.path)) /\ ~IsJsonText(TheLocal)

\* the source merged into the empty object at jq_path, as writeJson writes it
MergedIntoEmpty ==
  stringifyPretty(deepMergeAtPath(JObj(<<>>), substituteVariables(TheTemplate, variables).json,
                                  TheFile.jq_path))

(***************************************************************************)
(* C21: a jq-merge sync without --dry-run of a target that is absent       *)
(* writes the source merged into the empty object at jq_path; of a target  *)
(* that is a file but not parseable JSON it leaves the target's content    *)
(* of just before in <target>.corrupt.bak and the same merge into the      *)
(* empty object in the target; a later sync leaves <target>.corrupt.bak    *)
(* as it is.                                                               *)
(***************************************************************************)
C21_CorruptTargetPreserved ==
  [][MergeRuns =>
       /\ ~fileExists(files, TargetPath(TheFile.path)) =>
            files'[TargetPath(TheFile.path)] = MergedIntoEmpty
       /\ CorruptTarget =>
            /\ files'[CorruptBackupPath(TheFile.path)] = TheLocal
            /\ files'[TargetPath(TheFile.path)] = MergedIntoEmpty
       /\ ~CorruptTarget =>
            files'[CorruptBackupPath(TheFile.path)] = files[CorruptBackupPath(TheFile.path)]]_vars

\* two syncs of the source {m: {k: "x"}} at .m over the corrupt target "{":
\* the corrupt text is in .corrupt.bak, the target is {m: {m: {k: "x"}}}
C21_Witness ==
  /\ pc = "sync"
  /\ cur = 3
  /\ ~dryRun
  /\ TheFile.jq_path = <<".", "m">>
  /\ files[CorruptBackupPath(TheFile.path)] = TextFile(<<"{">>)
  /\ TheTemplate.json = JObj(<<KV(<<"m">>, JObj(<<KV(<<"k">>, JStr(<<"x">>))>>))>>)
  /\ TheLocal = JsonFile("pretty", JObj(<<KV(<<"m">>, TheTemplate.json)>>))

(***************************************************************************)
(* Template sync of several files, stated over the files the step lists.   *)
(***************************************************************************)
TemplateUnreadable(file) == ~fileExists(files, TemplatePath(steps[1].id, file.path))

NoJqPath(file) == file.strategy = "jq-merge" /\ file.jq_path = <<>>

Skipped(file) == TemplateUnreadable(file) \/ NoJqPath(file)

Synced(file) == ~Skipped(file)

\* the paths a sync of the file may write
WrittenPaths(file) ==
  {TargetPath(file.path), BackupPath(file.path), CorruptBackupPath(file.path),
   TmpPath(file.path)}

\* the warnings of the skipped files among the listed files i.., in listed order
RECURSIVE SkipWarnings(_, _)
SkipWarnings(fileConfigs, i) ==
  IF i > Len(fileConfigs) THEN <<>>
  ELSE (IF TemplateUnreadable(fileConfigs[i])
        THEN <<<<"Template not found", fileConfigs[i].path>>>>
        ELSE IF NoJqPath(fileConfigs[i])
        THEN <<<<"jq-merge strategy requires jq_path", fileConfigs[i].path>>>>
        ELSE <<>>)
         \o SkipWarnings(fileConfigs, i + 1)

(***************************************************************************)
(* C22: a sync of a step leaves every path of a file whose template is     *)
(* unreadable, or that is jq-merge without a jq_path, as it was; the file  *)
(* system after it is the one a sync of the other listed files alone, in   *)
(* listed order, leaves, and it throws only if that sync throws (not at    *)
(* all when every file is skipped); when it does not throw there is one    *)
(* warning per skipped file, in listed order.                              *)
(***************************************************************************)
C22_SkippedFileIsPassedOver ==
  [][SyncRuns =>
       LET listed == steps[1].files
           others == syncTemplates(files, steps[1].id, SelectSeq(listed, Synced),
                                   dryRun, variables)
       IN /\ \A i \in 1..Len(listed) :
               Skipped(listed[i]) =>
                 \A path \in WrittenPaths(listed[i]) : files'[path] = files[path]
          /\ files' = others.files
          /\ syncResult'.thrown = others.thrown
          /\ (\A i \in 1..Len(listed) : Skipped(listed[i])) => ~syncResult'.thrown
          /\ ~syncResult'.thrown => syncResult'.warnings = SkipWarnings(listed, 1)]_vars

\* p is jq-merge without jq_path and is passed over with a warning, q after
\* it is replaced by its rendered template
C22_Witness ==
  /\ pc = "sync"
  /\ cur = 2
  /\ ~dryRun
  /\ Len(steps[1].files) = 2
  /\ NoJqPath(steps[1].files[1]) /\ ~TemplateUnreadable(steps[1].files[1])
  /\ steps[1].files[2].strategy = "replace"
  /\ syncResult = [thrown |-> FALSE,
                   warnings |-> <<<<"jq-merge strategy requires jq_path", "p">>>>]
  /\ \A path \in WrittenPaths(steps[1].files[1]) : files[path] = Absent
  /\ files[TargetPath("q")] = TextFile(<<"k", "=", "x">>)

(***************************************************************************)
(* Extraction from the local files, stated over the candidate files of a   *)
(* variable: the listed files whose readable template mentions it.         *)
(***************************************************************************)
\* <<i, j>>: the j-th listed file of the i-th step
Candidates(name) ==
  {pos \in {<<i, j>> : i \in 1..Len(steps), j \in 1..2} :
     /\ pos[2] <= Len(steps[pos[1]].files)
     /\ steps[pos[1]].templateDir
     /\ LET templatePath == TemplatePath(steps[pos[1]].id, steps[pos[1]].files[pos[2]].path)
        IN /\ fileExists(files, templatePath)
           /\ InSeq(name, varsInTemplate(files[templatePath]))}

\* discovery order: steps in discovered order, files in listed order
Earlier(p1, p2) == p1[1] < p2[1] \/ (p1[1] = p2[1] /\ p1[2] < p2[2])

CandidateInfo(pos) ==
  [step |-> steps[pos[1]].id, filePath |-> steps[pos[1]].files[pos[2]].path,
   strategy |-> steps[pos[1]].files[pos[2]].strategy,
   jqPath |-> steps[pos[1]].files[pos[2]].jq_path]

\* the candidate's local file exists, parses, and yields a value for name
Yields(name, pos) ==
  /\ fileExists(files, TargetPath(CandidateInfo(pos).filePath))
  /\ ~extractFromCandidate(files, CandidateInfo(pos)).thrown
  /\ MapHasKey(extractFromCandidate(files, CandidateInfo(pos)).values, name)

Yield(name, pos) == MapGetKey(extractFromCandidate(files, CandidateInfo(pos)).values, name)

\* the claim's hit: the value yielded is not empty
YieldsNonEmpty(name, pos) == Yields(name, pos) /\ Yield(name, pos) # <<>>

(***************************************************************************)
(* C23: after extractVariablesFromExistingFiles each variable has the      *)
(* value, and as its source the local file, of the first candidate in      *)
(* discovery order whose local file exists and yields a non-empty value    *)
(* for it; a variable without such a candidate has no extracted value.     *)
(***************************************************************************)
C23_FirstNonEmptyCandidateWins ==
  pc = "extractedAll" =>
    \A d \in 1..Len(variableDefs) :
      LET name == variableDefs[d].k
          hits == {pos \in Candidates(name) : YieldsNonEmpty(name, pos)}
      IN IF hits = {} THEN ~MapHasKey(extracted, name)
         ELSE LET first == CHOOSE pos \in hits : \A h \in hits \ {pos} : Earlier(pos, h)
              IN /\ MapHasKey(extracted, name)
                 /\ MapGetKey(extracted, name) = Yield(name, first)
                 /\ \E e \in 1..Len(extracted) :
                      /\ extracted[e].k = name
                      /\ extracted[e].source = TargetPath(CandidateInfo(first).filePath)

(***************************************************************************)
(* Steps that do not support the current platform.                         *)
(***************************************************************************)
\* executeSteps is at a discovered step whose platforms do not include the
\* current platform
AtUnsupportedStep ==
  /\ pc = "exec"
  /\ cur <= Len(graph.order)
  /\ MapHas(steps, graph.order[cur])
  /\ platform \notin MapGet(steps, graph.order[cur]).platforms

\* no script of a skipped step has run, no sync of it was made and none of
\* its files is there
SkippedStepsLeaveNoTrace ==
  \A i \in 1..Len(results) :
    results[i].skipped =>
      /\ results[i].success
      /\ results[i].skipReason # <<>>
      /\ platform \notin MapGet(steps, results[i].step).platforms
      /\ \A n \in 1..Len(log) : log[n][2] # results[i].step
      /\ \A k \in 1..Len(MapGet(steps, results[i].step).files) :
           \A path \in WrittenPaths(MapGet(steps, results[i].step).files[k]) :
             files[path] = Absent

(***************************************************************************)
(* C24: at a step whose platforms do not contain the current platform,     *)
(* executeSteps appends the result skipped = true, success = true with a   *)
(* skip reason, runs no script and writes no file, and goes on to the next *)
(* entry of the order; no script of a skipped step is ever run and none of *)
(* its files written.                                                      *)
(***************************************************************************)
C24_UnsupportedPlatformIsSkipped ==
  [][/\ AtUnsupportedStep =>
          /\ Len(results') = Len(results) + 1
          /\ results'[Len(results')].step = graph.order[cur]
          /\ results'[Len(results')].skipped
          /\ results'[Len(results')].success
          /\ results'[Len(results')].skipReason # <<>>
          /\ log' = log
          /\ files' = files
          /\ cur' = cur + 1
          /\ pc' = "exec"
     /\ SkippedStepsLeaveNoTrace']_vars

\* on linux step a is skipped and step b, next in the order, has run
C24_Witness ==
  /\ pc = "done"
  /\ platform = "linux"
  /\ ~dryRun
  /\ Len(results) >= 2
  /\ results[1].step = "a" /\ results[1].skipped
  /\ results[2].step = "b" /\ results[2].success /\ ~results[2].skipped
  /\ InSeq(<<"post", "b">>, log)
  /\ fileExists(files, TargetPath("q"))
  /\ ~fileExists(files, TargetPath("p"))

(***************************************************************************)
(* Push, stated over the git commands run and the templates written.       *)
(***************************************************************************)
\* a step that runs a git command on the repository or changes a file
PushMutates == push'.commands # push.commands \/ files' # files

\* git status has reported a clean working tree
FoundClean == push.status = "clean"

\* at least one configured local file was found
FoundLocalFile == Len(push.existingLocalFiles) > 0

\* pushLocalConfig has found the tree dirty, or found no local file
FoundNothingToDo ==
  push.status = "dirty" \/ (pc # "push" /\ push.isRepo /\ push.existingLocalFiles = <<>>)

(***************************************************************************)
(* C25: every step of pushLocalConfig that runs git checkout, git pull or  *)
(* git checkout -b or writes a template is taken after the working tree    *)
(* was found clean and a configured local file was found, and never with   *)
(* dryRun; what is found is what is there; and once the tree is found      *)
(* dirty or no local file is found, pushLocalConfig has ended with no git  *)
(* command run and no file copied.                                         *)
(***************************************************************************)
C25_PushMutatesOnlyAfterChecks ==
  [][/\ PushMutates => (FoundClean /\ FoundLocalFile /\ ~dryRun)
     /\ (pc = "push" /\ push'.status = "clean") => (push.isRepo /\ push.clean)
     /\ (pc = "push" /\ push'.status = "dirty") => ~push.clean
     /\ pc = "push" =>
          \A n \in 1..Len(push'.existingLocalFiles) :
            isFile(files, TargetPath(push'.existingLocalFiles[n].fileConfig.path))
     /\ (pc = "push" /\ pc' = "checkout") => Len(push'.existingLocalFiles) > 0
     /\ FoundNothingToDo' =>
          /\ pc' \in {"exit", "returned"}
          /\ push'.commands = <<>>
          /\ results' = <<>>]_vars

\* a push without --dry-run that found a clean tree and local files has
\* checked out main, pulled, made the branch and changed a template
C25_Witness ==
  /\ pc = "returned"
  /\ ~dryRun
  /\ FoundClean
  /\ FoundLocalFile
  /\ push.commands = <<"checkout main", "pull --ff-only", "checkout -b">>
  /\ ~push.clean
  /\ results = <<"p", "q">>

(***************************************************************************)
(* The phases of executeStep, stated over the log of scripts run and syncs *)
(* made.                                                                   *)
(***************************************************************************)
PhaseRank(phase) == IF phase = "pre" THEN 1 ELSE IF phase = "sync" THEN 2 ELSE 3

\* the log holds the phases of each step at most once and in the order
\* pre, sync, post, and the phases of one step are not interleaved with
\* those of another
PhasesInOrder ==
  \A i, j \in 1..Len(log) :
    i < j =>
      IF log[i][2] = log[j][2] THEN PhaseRank(log[i][1]) < PhaseRank(log[j][1])
      ELSE \A n \in (j + 1)..Len(log) : log[n][2] # log[i][2]

\* a phase has an entry in the log only when the phase before it is over
PhaseStartsAfterPrevious ==
  /\ \A n \in 1..Len(log) :
       (log[n][1] = "sync" /\ MapGet(steps, log[n][2]).hasPreScript) =>
         (n > 1 /\ log[n - 1] = <<"pre", log[n][2]>>)
  /\ \A n \in 1..Len(log) :
       (log[n][1] = "post" /\ MapGet(steps, log[n][2]).templateDir
          /\ Len(MapGet(steps, log[n][2]).files) > 0) =>
         (n > 1 /\ log[n - 1] = <<"sync", log[n][2]>>)

(***************************************************************************)
(* C26: the scripts and the sync of a step happen in the order pre-script, *)
(* template sync, post-script, one after the other; a step whose           *)
(* pre-script exits non-zero gets a failure result, no sync and no         *)
(* post-script, and its files are untouched; a step whose template sync    *)
(* throws gets a failure result and no post-script.                        *)
(***************************************************************************)
C26_PhasesInOrder ==
  [][/\ PhasesInOrder'
     /\ PhaseStartsAfterPrevious'
     /\ (pc = "pre" /\ pc' = "done") =>
          /\ log' = Append(log, <<"pre", CurrentStep.id>>)
          /\ files' = files
          /\ results' = Append(results, ExecutionResult(CurrentStep.id, FALSE, FALSE,
                                                        "Pre-script failed"))
     /\ (pc = "pre" /\ pc' = "sync") =>
          (CurrentStep.hasPreScript => log' = Append(log, <<"pre", CurrentStep.id>>))
     /\ (pc = "sync" /\ syncResult'.thrown) =>
          /\ pc' = "done"
          /\ log' = Append(log, <<"sync", CurrentStep.id>>)
          /\ results' = Append(results, ExecutionResult(CurrentStep.id, FALSE, FALSE,
                                                        "Sync failed"))
     /\ \A i \in 1..Len(results') :
          IsFailure(results'[i]) =>
            /\ pc' = "done"
            /\ results'[i].error = "Pre-script failed" =>
                 /\ ~InSeq(<<"sync", results'[i].step>>, log')
                 /\ ~InSeq(<<"post", results'[i].step>>, log')
                 /\ \A k \in 1..Len(MapGet(steps, results'[i].step).files) :
                      \A path \in WrittenPaths(MapGet(steps, results'[i].step).files[k]) :
                        files'[path] = Absent
            /\ results'[i].error = "Sync failed" =>
                 ~InSeq(<<"post", results'[i].step>>, log')]_vars

\* step a ran its three phases; the sync of step b, which has a pre- and a
\* post-script, threw after its pre-script, and the run ended there
C26_Witness ==
  /\ pc = "done"
  /\ ~dryRun
  /\ steps[2].hasPreScript /\ steps[2].hasPostScript
  /\ log = <<<<"pre", "a">>, <<"sync", "a">>, <<"post", "a">>, <<"pre", "b">>,
             <<"sync", "b">>>>
  /\ Len(results) = 2
  /\ results[2] = ExecutionResult("b", FALSE, FALSE, "Sync failed")

(***************************************************************************)
(* The circular-dependency error.                                          *)
(***************************************************************************)
\* topologicalSort(steps) as validateNoCycles calls it, without an include
\* set
SortOfAll == topologicalSort(steps, [defined |-> FALSE, ids |-> <<>>])

(***************************************************************************)
(* C27: for steps none of which depends transitively on itself,            *)
(* buildDependencyGraph, with any selection and any dependency on an       *)
(* undiscovered id, and topologicalSort of all steps raise no error; and   *)
(* the id an error of either names is a discovered step that depends       *)
(* transitively on itself.                                                 *)
(***************************************************************************)
C27_ErrorOnlyForRealCycle ==
  /\ GraphBuilt =>
       /\ ~HasCycle => (~graph.thrown /\ pc # "fatal")
       /\ graph.thrown => (graph.errId \in Discovered /\ OnCycle(graph.errId))
  /\ ~HasCycle => ~SortOfAll.thrown
  /\ SortOfAll.thrown => (SortOfAll.errId \in Discovered /\ OnCycle(SortOfAll.errId))

\* a and b selected, both depending on c, which depends on an undiscovered
\* id: c is visited twice and no error is raised
C27_Witness ==
  /\ GraphBuilt
  /\ ~graph.thrown
  /\ selectedSteps.ids = <<"a", "b">>
  /\ DeclaredDeps("a") = {"c"}
  /\ DeclaredDeps("b") = {"c"}
  /\ DeclaredDeps("c") = {GhostId}
  /\ graph.order = <<"c", "a", "b">>

(***************************************************************************)
(* Substitution, stated against the substitution of all placeholders at    *)
(* once.                                                                   *)
(***************************************************************************)
\* the values substituteVariables inserts: the collected variables, then
\* the home directory and the user name
AllValues == variables \o <<KV(HOME, HomeDir), KV(USER, UserName)>>

\* no collected value holds a replacement pattern of String.prototype.replace
PatternFree ==
  \A i \in 1..Len(variables) :
    ~Occurs(<<"$", "$">>, variables[i].v) /\ ~Occurs(<<"$", "&">>, variables[i].v)

Reversed(s) == [i \in 1..Len(s) |-> s[Len(s) + 1 - i]]

(***************************************************************************)
(* C28: the text a sync renders from a text template is the template with  *)
(* each placeholder of a collected variable, of HOME and of USER replaced  *)
(* at once by its value, the values themselves left as they are, and it    *)
(* is the same text whichever order the collected variables are iterated   *)
(* in; also when a value holds ${B}, ${HOME} or ${USER}.                   *)
(***************************************************************************)
C28_SubstitutionIsSimultaneous ==
  [][(SyncRuns /\ TheFile.strategy = "replace" /\ ~IsJsonText(TheTemplate) /\ PatternFree) =>
       /\ files'[TmpPath(TheFile.path)] = TextFile(Expand(TheTemplate.txt, AllValues, 1))
       /\ substituteVariables(TheTemplate, Reversed(variables))
            = substituteVariables(TheTemplate, variables)]_vars

(***************************************************************************)
(* The dry run of a backup.                                                *)
(***************************************************************************)
BackupRuns == pc = "extracted" /\ pc' = "backed"

BackedFile == steps[1].files[1]

RECURSIVE AtParts(_, _, _)
AtParts(v, parts, i) ==
  IF i > Len(parts) THEN v
  ELSE IF IsObjectLike(v) THEN AtParts(GetKey(v, parts[i]), parts, i + 1)
  ELSE JUndefined

\* every key of t beside the keys parts[i..] has in w the value it has in t
RECURSIVE OffPathKept(_, _, _, _)
OffPathKept(t, w, parts, i) ==
  \/ i > Len(parts)
  \/ ~IsObjectLike(t)
  \/ /\ \A n \in 1..Len(t.o) :
          t.o[n].k # parts[i] => GetKey(w, t.o[n].k) = t.o[n].v
     /\ OffPathKept(GetKey(t, parts[i]), GetKey(w, parts[i]), parts, i + 1)

\* the source of the merge and the document the target held before it
MergeSource == substituteVariables(TheTemplate, variables).json

PriorTarget == IF IsJsonText(TheLocal) THEN TheLocal.json ELSE JObj(<<>>)

(***************************************************************************)
(* C30: after a jq-merge of a source that is an object at jq_path P, the   *)
(* document written to the target has at P an object that has every        *)
(* top-level key of the source, whether the target held along P nothing,   *)
(* a scalar, an array or an object, and every key of the prior target      *)
(* beside P has the value it had.                                          *)
(***************************************************************************)
C30_MergeAtPathLands ==
  [][(MergeRuns /\ IsPlainObject(MergeSource)) =>
       LET parts == pathParts(TheFile.jq_path)
           written == files'[TargetPath(TheFile.path)].json
           atPath == AtParts(written, parts, 1)
       IN /\ IsPlainObject(atPath)
          /\ \A n \in 1..Len(MergeSource.o) : HasKey(atPath, MergeSource.o[n].k)
          /\ OffPathKept(PriorTarget, written, parts, 1)]_vars

====
